---- MODULE Spec2Model ----
(***************************************************************************)
(* A model of the coroutine runtime of lzz233/coroutine_lib: the fiber     *)
(* primitive (fiber.cpp), the scheduler with its worker dispatch loop      *)
(* (scheduler.h, scheduler.cpp), the reactor's idle fiber and stopping     *)
(* test (ioscheduler.cpp) and the timer manager (timer.cpp).               *)
(*                                                                         *)
(* Spec       the scheduler/reactor: threads, fibers, the task queue,      *)
(*            start/stop, with hooked sleep as the source of timers.       *)
(* SpecTimer  the timer manager alone, driven by its public operations.    *)
(*                                                                         *)
(* Both specifications share the timer state and the timer operators.      *)
(***************************************************************************)
EXTENDS Integers, Sequences, FiniteSets, TLC

(***************************************************************************)
(* Bounds of the model.                                                    *)
(***************************************************************************)
\* largest `threads` argument of the Scheduler constructor
MaxThreads == 2
\* user fibers created by the application
MaxUserFibers == 2
\* schedule() calls made by the application thread
MaxPush == 2
\* Timer objects ever created
MaxTimers == 2
\* the wall clock runs over 0..MaxClock
MaxClock == 2
\* largest period (ms) given to add_timer / sleep
MaxMs == 1
\* largest thread id a task is pinned to
MaxPin == 1
\* front-insertion notifications counted before reset calls stop being started
MaxFront == 2
\* largest file descriptor given to the reactor
MaxFd == 1
\* registered events plus queued tasks beyond which addEvent is not called
MaxSched == 2
\* entries one epoll_wait call returns
MaxReady == 1
\* threads that run idle()'s readiness processing at the same time
MaxIdlers == 1
\* FdCtx objects ever created by FdManager::get
MaxCtx == 2
\* contextResize calls after which no addEvent call finds the table too small
MaxResize == 4

(***************************************************************************)
(* Program constants.                                                      *)
(***************************************************************************)
\* ScheduleTask::thread of a task that any worker may run
AnyThread == -1
\* getNextTimer()'s "no timer" result, ~0ull, as an out-of-range mark
NoTimeout == -1

(***************************************************************************)
(* Identities.  Thread 0 is the thread that constructs the scheduler (the  *)
(* adopting thread when use_caller); 1..MaxThreads are threads spawned by  *)
(* start(); OtherTid is an application thread that is neither.             *)
(***************************************************************************)
RootTid == 0
OtherTid == MaxThreads + 1
\* the threads that call the reactor's operations
IoCallers == {RootTid, OtherTid}
Dispatchers == 0..MaxThreads
Threads == 0..OtherTid
PinChoices == {AnyThread} \cup 0..MaxPin

NoFiber == <<"none", 0>>
UserFiber(i) == <<"user", i>>
MainFiber(t) == <<"main", t>>
IdleFiber(t) == <<"idle", t>>
CbFiber(t) == <<"cbf", t>>
SchedFiber == <<"sched", 0>>
UserFibers == {UserFiber(i) : i \in 1..MaxUserFibers}
Fibers ==
    UserFibers \cup {SchedFiber}
        \cup {MainFiber(t) : t \in Threads}
        \cup {IdleFiber(t) : t \in Dispatchers}
        \cup {CbFiber(t) : t \in Dispatchers}

NoCb == <<"nocb", 0>>
\* an application callback
UserCb == <<"usercb", 0>>
\* the callback hooked sleep gives to addTimer: iom->scheduleLock(fiber, -1)
WakeCb(f) == <<"wake", f[2]>>
\* a callback given to addTimer directly (timer manager driven alone)
TimerCb(i) == <<"timercb", i>>

\* errno value stored in timer_info::cancelled by the timeout callback
ETIMEDOUT == 110
\* IOManager::Event
READ == 1
WRITE == 4
Events == {READ, WRITE}
Fds == 0..MaxFd

\* an EventContext after resetEventContext; scheduler is whether the
\* pointer is set (there is one scheduler object)
EmptyCtx == [scheduler |-> FALSE, fiber |-> NoFiber, cb |-> NoCb]

NoThread == -2
NoTimer == 0
TimerIds == 1..MaxTimers
\* no Timer::reset call is between its erase and its reinsertion
NoReset == <<"noreset", 0, FALSE>>

VARIABLES
    \* ---- the wall clock and the timer manager (timer.h) ----
    now,               \* std::chrono::system_clock::now()
    m_timers,          \* TimerManager::m_timers: the set's elements
    m_tickled,         \* TimerManager::m_tickled
    m_previouseTime,   \* TimerManager::m_previouseTime
    tmCount,           \* Timer objects constructed so far
    m_next,            \* Timer::m_next, per timer
    m_ms,              \* Timer::m_ms, per timer
    m_recurring,       \* Timer::m_recurring, per timer
    tm_cb,             \* Timer::m_cb, per timer (NoCb = nullptr)
    frontCalls,        \* calls of onTimerInsertedAtFront so far (observer)
    collected,         \* per timer: times its callback was collected (observer)
    lastOp,            \* the last timer operation and its result (observer)
    rst                \* per timer: the place of a Timer::reset call in flight

timerVars ==
    <<now, m_timers, m_tickled, m_previouseTime, tmCount, m_next, m_ms,
      m_recurring, tm_cb, frontCalls, collected, lastOp, rst>>

VARIABLES
    \* ---- the scheduler object (scheduler.h) ----
    m_useCaller,          \* Scheduler::m_useCaller
    m_threadCount,        \* Scheduler::m_threadCount
    m_rootThread,         \* Scheduler::m_rootThread
    m_stopping,           \* Scheduler::m_stopping
    m_tasks,              \* Scheduler::m_tasks, in queue order
    m_activeThreadCount,  \* Scheduler::m_activeThreadCount
    m_idleThreadCount,    \* Scheduler::m_idleThreadCount
    m_threads,            \* Scheduler::m_threads: the spawned threads
    m_pendingEventCount,  \* IOManager::m_pendingEventCount
    \* ---- thread-local state (fiber.cpp, scheduler.cpp) ----
    t_fiber,              \* per thread: the current-fiber pointer
    t_thread_fiber,       \* per thread: the main fiber
    t_scheduler_fiber,    \* per thread: the scheduler fiber
    t_scheduler,          \* per thread: whether t_scheduler == this
    \* ---- fiber objects (fiber.h) ----
    m_state,              \* Fiber::m_state ("NONE" before construction)
    m_cb,                 \* Fiber::m_cb is set
    m_runInScheduler,     \* Fiber::m_runInScheduler
    m_mutex,              \* Fiber::m_mutex: the thread that holds it
    m_ctx,                \* Fiber::m_ctx: the fiber whose stack it resumes
    \* ---- control ----
    exec,                 \* per thread: the fiber whose stack is executing
    pc,                   \* per dispatcher: its place in Scheduler::run
    task,                 \* per dispatcher: run()'s local `task`
    ipc,                  \* per dispatcher: its idle fiber's place in idle()
    cbs,                  \* per dispatcher: idle()'s local `cbs`
    fpc,                  \* per user fiber: its place in the user entry
    cpc,                  \* the application's place (construct/start/stop)
    stopTid,              \* the thread that called stop()
    aborted,              \* the assertion that ended the process, or "none"
    \* ---- observers ----
    nextTaskId,           \* tasks pushed so far + 1
    removed,              \* per task id: times a dispatcher erased it
    runs                  \* per task id: times it was run (or skipped as TERM)

schedVars ==
    <<m_useCaller, m_threadCount, m_rootThread, m_stopping, m_tasks,
      m_activeThreadCount, m_idleThreadCount, m_threads, m_pendingEventCount,
      t_fiber, t_thread_fiber, t_scheduler_fiber, t_scheduler,
      m_state, m_cb, m_runInScheduler, m_mutex, m_ctx,
      exec, pc, task, ipc, cbs, fpc, cpc, stopTid, aborted,
      nextTaskId, removed, runs>>

VARIABLES
    \* ---- the reactor's fd contexts (ioscheduler.h) ----
    events,            \* per fd: FdContext::events, the registered events
    event_ctx,         \* per fd and event: FdContext::read / FdContext::write
    m_epfd,            \* per fd: the events the epoll instance watches it for
    ep_events,         \* per dispatcher: idle()'s `events` not yet processed
    m_tickleFds,       \* IOManager::m_tickleFds: the pipe holds unread bytes
    lastIo,            \* the last fd operation and its result (observer)
    ioPrev             \* the fd state before the last addEvent (observer)

fdVars == <<events, event_ctx, m_epfd, ep_events, m_tickleFds, lastIo, ioPrev>>

VARIABLES
    \* ---- one hooked read/write-family call (hook.cpp, do_io) ----
    hpc,               \* the call's place in do_io
    htimer,            \* do_io's `timer`: its condition timer, or NoTimer
    tinfo_refs,        \* the owners of the call's timer_info (shared_ptr)
    tinfo_cancelled,   \* timer_info::cancelled
    opc,               \* per timer: the place of its collected OnTimer call
    hret               \* what the call returned (observer)

hookVars == <<hpc, htimer, tinfo_refs, tinfo_cancelled, opc, hret>>

VARIABLES
    \* ---- the fd manager and the hooked fd calls (fd_manager.h, hook.cpp) ----
    m_datas,           \* FdManager::m_datas, per fd: its FdCtx, or NoCtx
    fdctx,             \* per FdCtx object: its fields
    ctxCount,          \* FdCtx objects constructed so far
    gpc,               \* per thread: its FdManager::get call past the read lock
    o_nonblock,        \* per fd: O_NONBLOCK in the kernel's file status flags
    t_hook_enable,     \* per thread: the thread-local t_hook_enable
    kpc,               \* the hooked close call in flight
    lastFdm            \* the last fd-manager / hooked call and its result (observer)

fdmVars ==
    <<m_datas, fdctx, ctxCount, gpc, o_nonblock, t_hook_enable, kpc, lastFdm>>

VARIABLES
    \* ---- the reactor's table of fd contexts (ioscheduler.h) ----
    m_fdContexts,      \* IOManager::m_fdContexts: per index, the FdContext object
    fdCtxMade,         \* contextResize calls so far (numbers the objects they make)
    aepc,              \* per thread: its addEvent call's place and fd_ctx
    fdCtxEvents        \* the FdContext objects that hold a registered event

tblVars == <<m_fdContexts, fdCtxMade, aepc, fdCtxEvents>>

VARIABLES
    \* ---- the runtime's locks and the threads that take them ----
    lkSteps,           \* per thread: the lock steps left of the call it is in
    lkHeld,            \* per lock: the threads holding it, with the mode
    lkThr              \* per thread: its life ("none", "made", "init", "stopping", "exited")

lkVars == <<lkSteps, lkHeld, lkThr>>

vars == <<timerVars, schedVars, fdVars, hookVars, fdmVars, tblVars, lkVars>>

(***************************************************************************)
(* std::set<shared_ptr<Timer>, Timer::Comparator>.  Two elements are the   *)
(* same key when neither compares less than the other; insert keeps the    *)
(* element already present, find returns the element with the same key.    *)
(* next is the m_next field of every timer at the time of the call.        *)
(***************************************************************************)
Comparator(next, lhs, rhs) == next[lhs] < next[rhs]

SetEquiv(next, a, b) == ~Comparator(next, a, b) /\ ~Comparator(next, b, a)

SetFind(next, S, x) ==
    IF \E y \in S : SetEquiv(next, y, x)
    THEN CHOOSE y \in S : SetEquiv(next, y, x)
    ELSE NoTimer

SetInsert(next, S, x) ==
    IF \E y \in S : SetEquiv(next, y, x) THEN S ELSE S \cup {x}

SetBegin(next, S) ==
    CHOOSE y \in S : \A z \in S : ~Comparator(next, z, y)

(***************************************************************************)
(* TimerManager::addTimer(shared_ptr<Timer>): the insert under the write   *)
(* lock, with the front-insertion notification.  The result is the new     *)
(* set, the new m_tickled and whether onTimerInsertedAtFront is called.    *)
(***************************************************************************)
\* a faulty variant: the pending notification is not looked at
AddTimerPtrEveryFront(next, S, tickled, timer) ==
    LET S2 == SetInsert(next, S, timer)
        it == SetFind(next, S2, timer)
        at_front == (it = SetBegin(next, S2))
    IN  [timers |-> S2,
         tickled |-> (tickled \/ at_front),
         at_front |-> at_front]

AddTimerPtr(next, S, tickled, timer) ==
    LET S2 == SetInsert(next, S, timer)
        it == SetFind(next, S2, timer)
        at_front == (it = SetBegin(next, S2)) /\ ~tickled
    IN  [timers |-> S2,
         tickled |-> (tickled \/ at_front),
         at_front |-> at_front]

(***************************************************************************)
(* TimerManager::detectClockRollover.  Only the specification SpecRoll     *)
(* sets the clock back; in the others the result is computed and found     *)
(* false.                                                                  *)
(***************************************************************************)
RolloverMs == 3600000

\* a faulty variant: every call detects a rollover
DetectClockRolloverAlways(t, prev) == TRUE

DetectClockRollover(t, prev) == t < prev - RolloverMs

(***************************************************************************)
(* TimerManager::listExpiredCb: the loop, one iteration per call.  st is   *)
(* [timers, next, cb, cbs]; fuel bounds the iterations of the model.       *)
(***************************************************************************)
RECURSIVE ListExpiredLoop(_, _, _, _)
ListExpiredLoop(st, t, rollover, fuel) ==
    IF fuel = 0 \/ st.timers = {} THEN st
    ELSE
        LET temp == SetBegin(st.next, st.timers)
        IN  IF ~(rollover \/ st.next[temp] <= t) THEN st
            ELSE
                LET erased == st.timers \ {temp}
                    cbs2 == Append(st.cbs, <<temp, st.cb[temp]>>)
                IN  IF m_recurring[temp]
                    THEN LET next2 == [st.next EXCEPT ![temp] = t + m_ms[temp]]
                         IN  ListExpiredLoop(
                                 [st EXCEPT !.timers = SetInsert(next2, erased, temp),
                                            !.next = next2,
                                            !.cbs = cbs2],
                                 t, rollover, fuel - 1)
                    ELSE ListExpiredLoop(
                             [st EXCEPT !.timers = erased,
                                        !.cb = [st.cb EXCEPT ![temp] = NoCb],
                                        !.cbs = cbs2],
                             t, rollover, fuel - 1)

ListExpiredCb(S, next, cb, t, prev) ==
    ListExpiredLoop([timers |-> S, next |-> next, cb |-> cb, cbs |-> <<>>],
                    t, DetectClockRollover(t, prev), MaxTimers + 1)

(***************************************************************************)
(* TimerManager::getNextTimer: the value returned.                         *)
(***************************************************************************)
GetNextTimer(S, next, t) ==
    IF S = {} THEN NoTimeout
    ELSE LET time == next[SetBegin(next, S)]
         IN  IF t >= time THEN 0 ELSE time - t

(***************************************************************************)
(* The scheduler.                                                          *)
(***************************************************************************)
\* what no fiber's code changes
quietVars ==
    <<m_useCaller, m_threadCount, m_rootThread, m_stopping, m_threads, m_pendingEventCount, t_thread_fiber, t_scheduler_fiber, t_scheduler,
      m_runInScheduler, cpc, stopTid>>

\* every task ever pushed: the application's and, per timer, the collected
\* callback and the fiber it wakes
TaskIds == 1..(MaxPush + 2 * MaxTimers)

NoTask == [fiber |-> NoFiber, cb |-> NoCb, thread |-> AnyThread, id |-> 0]

Alive == aborted = "none"

\* the constructor's SetThis() on the constructing thread
CtorSetThis(use_caller) == TRUE

\* the stack Scheduler::run executes on: the scheduler fiber on the adopting
\* thread, the thread's main fiber on a spawned thread
RunStack(d) == IF d = m_rootThread THEN SchedFiber ELSE MainFiber(d)

\* a faulty variant of SwitchPeer: the thread's main fiber whatever the flag
SwitchPeerMain(t, f) == t_thread_fiber[t]

\* the fiber resume() saves into and yield() returns to
SwitchPeer(t, f) ==
    IF m_runInScheduler[f] THEN t_scheduler_fiber[t] ELSE t_thread_fiber[t]

\* a faulty variant of YieldState: READY without the test for TERM
YieldAlwaysReady(st) == "READY"

\* yield(): RUNNING becomes READY, TERM stays
YieldState(st) == IF st # "TERM" THEN "READY" ELSE st

\* Fiber::resume() after its assertion
Resume(t, f) ==
    /\ m_state' = [m_state EXCEPT ![f] = "RUNNING"]
    /\ t_fiber' = [t_fiber EXCEPT ![t] = f]
    /\ m_ctx' = [m_ctx EXCEPT ![SwitchPeer(t, f)] = exec[t]]
    /\ exec' = [exec EXCEPT ![t] = m_ctx[f]]

\* Fiber::yield() of fiber f, whose state is st when yield() is entered
Yield(t, f, st) ==
    /\ m_state' = [m_state EXCEPT ![f] = YieldState(st)]
    /\ t_fiber' = [t_fiber EXCEPT ![t] = SwitchPeer(t, f)]
    /\ m_ctx' = [m_ctx EXCEPT ![f] = exec[t]]
    /\ exec' = [exec EXCEPT ![t] = m_ctx[SwitchPeer(t, f)]]

\* Scheduler::scheduleLock: the push (an empty task is not pushed)
PushTask(q, f, cb, thr, id) ==
    IF f # NoFiber \/ cb # NoCb
    THEN Append(q, [fiber |-> f, cb |-> cb, thread |-> thr, id |-> id])
    ELSE q

\* a faulty variant of TakeIndex: the head of the queue whatever its thread
TakeIndexNoPin(q, thread_id) == IF q = <<>> THEN 0 ELSE 1

\* run()'s scan: the index of the task taken, 0 when none is
TakeIndex(q, thread_id) ==
    LET ok == {i \in 1..Len(q) :
                  ~(q[i].thread # AnyThread /\ q[i].thread # thread_id)}
    IN  IF ok = {} THEN 0 ELSE CHOOSE i \in ok : \A j \in ok : i <= j

\* a faulty variant of RemoveAt: erases the tasks scanned over as well
RemoveThrough(q, i) == SubSeq(q, i + 1, Len(q))

\* m_tasks.erase(it)
RemoveAt(q, i) == SubSeq(q, 1, i - 1) \o SubSeq(q, i + 1, Len(q))

\* a faulty variant of FiberLockFree: the fiber's mutex is not taken
FiberLockIgnored(f) == TRUE

\* std::lock_guard on the fiber's m_mutex can be acquired
FiberLockFree(f) == m_mutex[f] = NoThread

\* a faulty variant of JoinDone: stop() returns without joining
JoinSkipped == TRUE

\* stop()'s join loop has joined every spawned thread
JoinDone == \A w \in m_threads : pc[w] = "exited"

\* Scheduler::stopping()
SchedulerStopping == m_stopping /\ m_tasks = <<>> /\ m_activeThreadCount = 0

\* the precondition stop() asserts
StopAssert(s) == IF m_useCaller THEN t_scheduler[s] ELSE ~t_scheduler[s]

\* The state after the constructor.  The application's fibers are made with
\* the default run_in_scheduler = true (fiber.h:31), the flag of a fiber that
\* is given to the scheduler; only m_schedulerFiber is made with false.
SchedInit ==
    /\ m_useCaller \in BOOLEAN
    /\ \E threads \in 1..MaxThreads :
          m_threadCount = threads - (IF m_useCaller THEN 1 ELSE 0)
    /\ m_rootThread = IF m_useCaller THEN RootTid ELSE -1
    /\ m_stopping = FALSE
    /\ m_tasks = <<>>
    /\ m_activeThreadCount = 0
    /\ m_idleThreadCount = 0
    /\ m_threads = {}
    /\ m_pendingEventCount = 0
    /\ t_fiber = [t \in Threads |->
                    IF t = RootTid /\ m_useCaller THEN MainFiber(t) ELSE NoFiber]
    /\ t_thread_fiber = t_fiber
    /\ t_scheduler_fiber = [t \in Threads |->
                    IF t = RootTid /\ m_useCaller THEN SchedFiber ELSE NoFiber]
    /\ t_scheduler = [t \in Threads |-> t = RootTid /\ CtorSetThis(m_useCaller)]
    /\ m_state = [f \in Fibers |->
                    IF f \in UserFibers THEN "READY"
                    ELSE IF m_useCaller /\ f = SchedFiber THEN "READY"
                    ELSE IF m_useCaller /\ f = MainFiber(RootTid) THEN "RUNNING"
                    ELSE "NONE"]
    /\ m_cb = [f \in Fibers |-> m_state[f] = "READY"]
    /\ m_runInScheduler = [f \in Fibers |-> f # SchedFiber]
    /\ m_mutex = [f \in Fibers |-> NoThread]
    /\ m_ctx = [f \in Fibers |-> f]
    /\ exec = t_fiber
    /\ pc = [d \in Dispatchers |-> "off"]
    /\ task = [d \in Dispatchers |-> NoTask]
    /\ ipc = [d \in Dispatchers |-> "top"]
    /\ cbs = [d \in Dispatchers |-> <<>>]
    /\ fpc = [f \in UserFibers |-> "body"]
    /\ cpc = "init"
    /\ stopTid = NoThread
    /\ aborted = "none"
    /\ nextTaskId = 1
    /\ removed = [i \in TaskIds |-> 0]
    /\ runs = [i \in TaskIds |-> 0]

TimerInit ==
    /\ now = 0
    /\ m_timers = {}
    /\ m_tickled = FALSE
    /\ m_previouseTime = 0
    /\ tmCount = 0
    /\ m_next = [i \in TimerIds |-> 0]
    /\ m_ms = [i \in TimerIds |-> 0]
    /\ m_recurring = [i \in TimerIds |-> FALSE]
    /\ tm_cb = [i \in TimerIds |-> NoCb]
    /\ frontCalls = 0
    /\ collected = [i \in TimerIds |-> 0]
    /\ lastOp = <<"none", 0, FALSE>>
    /\ rst = [i \in TimerIds |-> NoReset]

\* the observer ioPrev when the last fd operation was not an addEvent
NoSnapshot ==
    [fd |-> -1, event |-> 0, events |-> {},
     ctx |-> [e \in Events |-> EmptyCtx], count |-> 0, epfd |-> {}]

\* contextResize(size) on the vector v: resize(size), then a new FdContext in
\* every null slot.  An FdContext object is named by its fd and the number
\* made of the call that created it
ContextResize(v, size, made) ==
    [i \in 1..size |-> IF i <= Len(v) THEN v[i] ELSE made]

\* contextResize(32) of the constructor: every fd has a context
FdInit ==
    /\ events = [fd \in Fds |-> {}]
    /\ event_ctx = [fd \in Fds |-> [e \in Events |-> EmptyCtx]]
    /\ m_epfd = [fd \in Fds |-> {}]
    /\ ep_events = [d \in Dispatchers |-> {}]
    /\ m_tickleFds = FALSE
    /\ lastIo = <<"none", 0, 0, 0>>
    /\ ioPrev = NoSnapshot
    /\ m_fdContexts = ContextResize(<<>>, 32, 1)
    /\ fdCtxMade = 1
    /\ aepc = [t \in IoCallers |-> [pc |-> "off", fd |-> 0, ctx |-> <<0, 0>>]]
    /\ fdCtxEvents = {}

\* no hooked call has been made
HookInit ==
    /\ hpc = "off"
    /\ htimer = NoTimer
    /\ tinfo_refs = {}
    /\ tinfo_cancelled = 0
    /\ opc = [i \in TimerIds |-> "none"]
    /\ hret = "none"

\* a null shared_ptr<FdCtx>
NoCtx == 0
\* the members of an FdCtx before init() (fd_manager.h:17-20)
NewCtx ==
    [isSocket |-> FALSE, sysNonblock |-> FALSE, userNonblock |-> FALSE,
     isClosed |-> FALSE]
\* no FdManager::get call of the thread is past its read lock
NoGet == <<"off", 0>>
\* no hooked close is in flight
NoClose == [pc |-> "off", t |-> 0, fd |-> 0, ctx |-> NoCtx, cancelAll |-> "none"]

\* the FdManager singleton after its constructor (m_datas.resize(64): every
\* fd of the model has an empty slot); hooks are off on every thread
FdmInit ==
    /\ m_datas = [fd \in Fds |-> NoCtx]
    /\ fdctx = [c \in (1..MaxCtx) |-> NewCtx]
    /\ ctxCount = 0
    /\ gpc = [t \in IoCallers |-> NoGet]
    /\ o_nonblock = [fd \in Fds |-> FALSE]
    /\ t_hook_enable = [t \in IoCallers |-> FALSE]
    /\ kpc = NoClose
    /\ lastFdm = <<"none", 0, 0, 0>>

\* no thread has been spawned, no call is in flight, every lock is free
LkInit ==
    /\ lkSteps = [t \in Dispatchers |-> <<>>]
    /\ lkHeld = [l \in {<<"sched", 0>>, <<"table", 0>>, <<"timer", 0>>}
                        \cup {<<"fiber", 0>>}
                        \cup {<<"fd", fd>> : fd \in Fds} |-> {}]
    /\ lkThr = [t \in Dispatchers |-> "none"]

Init ==
    SchedInit /\ TimerInit /\ FdInit /\ HookInit /\ FdmInit /\ LkInit



\* IOManager::tickle() when the caller's flag need is set: nothing without
\* an idle thread (hasIdleThreads()), otherwise one byte written to the pipe
Tickle(pipe, idle, need) == IF need /\ idle > 0 THEN TRUE ELSE pipe

\* the entry epoll_wait reports for the read end of the pipe
TickleEntry == [fd |-> MaxFd + 1, evs |-> {READ}, hup |-> FALSE]

(***************************************************************************)
(* The application thread: schedule, start, reset, stop.                   *)
(***************************************************************************)
\* schedule(fc, thread) by the application: a user fiber or a callback
AppSchedule(f, cb, thr) ==
    /\ Alive
    /\ cpc \in {"init", "started"}
    /\ nextTaskId <= MaxPush
    /\ m_tasks' = PushTask(m_tasks, f, cb, thr, nextTaskId)
    /\ nextTaskId' = nextTaskId + 1
    /\ m_tickleFds' = Tickle(m_tickleFds, m_idleThreadCount, m_tasks = <<>>)
    /\ UNCHANGED <<timerVars, events, event_ctx, m_epfd, ep_events, lastIo, ioPrev, hookVars, tblVars, lkVars, fdmVars, m_useCaller, m_threadCount, m_rootThread, m_stopping, m_activeThreadCount,
                   m_idleThreadCount, m_threads, m_pendingEventCount, t_thread_fiber, t_scheduler_fiber, t_scheduler,
                   m_state, t_fiber, m_ctx, exec, m_cb, m_runInScheduler, m_mutex, pc, task,
                   ipc, cbs, fpc, cpc, stopTid, aborted, removed, runs>>

\* Scheduler::start(): spawn m_threadCount threads, each running run()
AppStart ==
    /\ Alive
    /\ cpc = "init"
    /\ ~m_stopping
    /\ m_threads = {}
    /\ m_threads' = 1..m_threadCount
    /\ pc' = [d \in Dispatchers |-> IF d \in 1..m_threadCount THEN "start" ELSE pc[d]]
    /\ cpc' = "started"
    /\ UNCHANGED <<timerVars, fdVars, hookVars, tblVars, lkVars, fdmVars, m_useCaller, m_threadCount, m_rootThread, m_stopping, m_tasks, m_activeThreadCount,
                   m_idleThreadCount, m_pendingEventCount, t_thread_fiber, t_scheduler_fiber, t_scheduler, m_state, t_fiber, m_ctx, exec,
                   m_cb, m_runInScheduler, m_mutex, task, ipc, cbs, fpc,
                   stopTid, aborted, nextTaskId, removed, runs>>

\* Fiber::reset(cb) by the application on a fiber that reached TERM
AppReset(f) ==
    /\ Alive
    /\ cpc \in {"init", "started"}
    /\ f \in UserFibers
    /\ m_state[f] = "TERM"
    /\ m_state' = [m_state EXCEPT ![f] = "READY"]
    /\ m_cb' = [m_cb EXCEPT ![f] = TRUE]
    /\ m_ctx' = [m_ctx EXCEPT ![f] = f]
    /\ fpc' = [fpc EXCEPT ![f] = "body"]
    /\ UNCHANGED <<timerVars, fdVars, hookVars, tblVars, lkVars, fdmVars, m_useCaller, m_threadCount, m_rootThread, m_stopping, m_tasks, m_activeThreadCount,
                   m_idleThreadCount, m_threads, m_pendingEventCount, t_thread_fiber, t_scheduler_fiber, t_scheduler,
                   t_fiber, exec, m_runInScheduler, m_mutex, pc, task, ipc, cbs,
                   cpc, stopTid, aborted, nextTaskId, removed, runs>>

\* the threads stop() may be called from: the adopting thread when
\* use_caller, otherwise any thread that is not a worker
StopCallers == IF m_useCaller THEN {RootTid} ELSE {RootTid, OtherTid}

\* Scheduler::stop() up to its assertion: the stopping() test (false, as
\* m_stopping is; IOManager::stopping calls getNextTimer), the flag, the assert
StopBegin(s) ==
    /\ Alive
    /\ cpc = "started"
    /\ s \in StopCallers
    /\ m_tickled' = FALSE
    /\ m_stopping' = TRUE
    /\ stopTid' = s
    /\ cpc' = "stopping"
    /\ aborted' = IF StopAssert(s) THEN "none" ELSE "stop_assert"
    /\ UNCHANGED <<now, m_timers, m_previouseTime, tmCount, m_next, m_ms, m_recurring, tm_cb, frontCalls, collected, lastOp, rst, fdVars, hookVars, tblVars, lkVars, fdmVars,
                   m_useCaller, m_threadCount, m_rootThread, m_tasks, m_activeThreadCount, m_idleThreadCount,
                   m_threads, m_pendingEventCount, t_thread_fiber, t_scheduler_fiber, t_scheduler, m_state, t_fiber, m_ctx, exec, m_cb,
                   m_runInScheduler, m_mutex, pc, task, ipc, cbs, fpc, nextTaskId, removed, runs>>

\* stop(): the tickles, then m_schedulerFiber->resume() when there is one
StopResume ==
    /\ Alive
    /\ cpc = "stopping"
    /\ m_tickleFds' = Tickle(m_tickleFds, m_idleThreadCount,
                              m_threadCount > 0 \/ m_useCaller)
    /\ IF m_useCaller
       THEN /\ IF m_state[SchedFiber] = "READY"
               THEN /\ Resume(stopTid, SchedFiber)
                    /\ pc' = [pc EXCEPT ![RootTid] = "start"]
                    /\ UNCHANGED aborted
               ELSE /\ aborted' = "resume_assert"
                    /\ UNCHANGED <<m_state, t_fiber, m_ctx, exec, pc>>
            /\ cpc' = "resumed"
       ELSE /\ cpc' = "join"
            /\ UNCHANGED <<m_state, t_fiber, m_ctx, exec, pc, aborted>>
    /\ UNCHANGED <<timerVars, events, event_ctx, m_epfd, ep_events, lastIo, ioPrev, hookVars, tblVars, lkVars, fdmVars, m_useCaller, m_threadCount, m_rootThread, m_stopping, m_tasks, m_activeThreadCount,
                   m_idleThreadCount, m_threads, m_pendingEventCount, t_thread_fiber, t_scheduler_fiber, t_scheduler,
                   m_cb, m_runInScheduler, m_mutex, task, ipc, cbs, fpc,
                   stopTid, nextTaskId, removed, runs>>

\* stop(): control is back from the scheduler fiber (if any); swap m_threads
\* out and join every thread; stop() returns
StopJoin ==
    /\ Alive
    /\ \/ cpc = "join"
       \/ cpc = "resumed" /\ exec[stopTid] = MainFiber(stopTid)
    /\ JoinDone
    /\ m_threads' = {}
    /\ cpc' = "stopped"
    /\ UNCHANGED <<timerVars, fdVars, hookVars, tblVars, lkVars, fdmVars, m_useCaller, m_threadCount, m_rootThread, m_stopping, m_tasks, m_activeThreadCount,
                   m_idleThreadCount, m_pendingEventCount, t_thread_fiber, t_scheduler_fiber, t_scheduler, m_state, t_fiber, m_ctx, exec,
                   m_cb, m_runInScheduler, m_mutex, pc, task, ipc, cbs, fpc,
                   stopTid, aborted, nextTaskId, removed, runs>>

(***************************************************************************)
(* Scheduler::run, the dispatch loop of dispatcher d (thread id d).        *)
(***************************************************************************)
\* SetThis(); Fiber::GetThis() on a thread other than the root thread (the
\* main fiber, also the thread's scheduler fiber); the idle fiber
RunStart(d) ==
    /\ Alive
    /\ pc[d] = "start"
    /\ t_scheduler' = [t_scheduler EXCEPT ![d] = TRUE]
    /\ IF d # m_rootThread
       THEN /\ t_fiber' = [t_fiber EXCEPT ![d] = MainFiber(d)]
            /\ t_thread_fiber' = [t_thread_fiber EXCEPT ![d] = MainFiber(d)]
            /\ t_scheduler_fiber' = [t_scheduler_fiber EXCEPT ![d] = MainFiber(d)]
            /\ exec' = [exec EXCEPT ![d] = MainFiber(d)]
            /\ m_state' = [m_state EXCEPT ![MainFiber(d)] = "RUNNING",
                                          ![IdleFiber(d)] = "READY"]
       ELSE /\ m_state' = [m_state EXCEPT ![IdleFiber(d)] = "READY"]
            /\ UNCHANGED <<t_fiber, t_thread_fiber, t_scheduler_fiber, exec>>
    /\ m_cb' = [m_cb EXCEPT ![IdleFiber(d)] = TRUE]
    /\ pc' = [pc EXCEPT ![d] = "scan"]
    /\ UNCHANGED <<timerVars, fdVars, hookVars, tblVars, lkVars, fdmVars, m_useCaller, m_threadCount, m_rootThread, m_stopping, m_tasks, m_activeThreadCount,
                   m_idleThreadCount, m_threads, m_pendingEventCount, m_ctx,
                   m_runInScheduler, m_mutex, task, ipc, cbs, fpc, cpc,
                   stopTid, aborted, nextTaskId, removed, runs>>

\* m_idleThreadCount-- when the idle fiber has just yielded; then the scan
\* under m_mutex: take the first task this thread may run
RunScan(d) ==
    /\ Alive
    /\ pc[d] \in {"scan", "inIdle"}
    /\ exec[d] = RunStack(d)
    /\ m_idleThreadCount' = m_idleThreadCount - (IF pc[d] = "inIdle" THEN 1 ELSE 0)
    /\ LET i == TakeIndex(m_tasks, d)
       IN  /\ \E after \in (IF i = 0 THEN {FALSE} ELSE BOOLEAN) :
                 m_tickleFds' =
                     Tickle(m_tickleFds, m_idleThreadCount',
                            (IF i = 0 THEN m_tasks # <<>> ELSE i > 1) \/ after)
           /\ IF i = 0
              THEN /\ pc' = [pc EXCEPT ![d] = "idle"]
                   /\ UNCHANGED <<m_tasks, task, m_activeThreadCount, removed>>
              ELSE /\ task' = [task EXCEPT ![d] = m_tasks[i]]
                   /\ m_tasks' = RemoveAt(m_tasks, i)
                   /\ m_activeThreadCount' = m_activeThreadCount + 1
                   /\ removed' = [removed EXCEPT ![m_tasks[i].id] = @ + 1]
                   /\ pc' = [pc EXCEPT ![d] =
                               IF m_tasks[i].fiber # NoFiber THEN "fiber"
                               ELSE "cb"]
    /\ UNCHANGED <<timerVars, events, event_ctx, m_epfd, ep_events, lastIo, ioPrev, hookVars, tblVars, lkVars, fdmVars, m_useCaller, m_threadCount, m_rootThread, m_stopping, m_threads,
                   m_pendingEventCount, t_thread_fiber, t_scheduler_fiber, t_scheduler, m_state, t_fiber, m_ctx, exec, m_cb,
                   m_runInScheduler, m_mutex, ipc, cbs, fpc, cpc, stopTid,
                   aborted, nextTaskId, runs>>

\* a fiber task: lock the fiber's mutex; resume it unless it is TERM
RunFiber(d) ==
    /\ Alive
    /\ pc[d] = "fiber"
    /\ exec[d] = RunStack(d)
    /\ LET f == task[d].fiber
       IN  /\ FiberLockFree(f)
           /\ runs' = [runs EXCEPT ![task[d].id] = @ + 1]
           /\ IF m_state[f] = "TERM"
              THEN /\ m_activeThreadCount' = m_activeThreadCount - 1
                   /\ task' = [task EXCEPT ![d] = NoTask]
                   /\ pc' = [pc EXCEPT ![d] = "scan"]
                   /\ UNCHANGED <<m_state, t_fiber, m_ctx, exec, m_mutex, aborted>>
              ELSE IF m_state[f] = "READY"
              THEN /\ m_mutex' = [m_mutex EXCEPT ![f] = d]
                   /\ Resume(d, f)
                   /\ pc' = [pc EXCEPT ![d] = "inTask"]
                   /\ UNCHANGED <<m_activeThreadCount, task, aborted>>
              ELSE /\ aborted' = "resume_assert"
                   /\ UNCHANGED <<m_state, t_fiber, m_ctx, exec, m_mutex, m_activeThreadCount,
                                  task, pc>>
    /\ UNCHANGED <<timerVars, fdVars, hookVars, tblVars, lkVars, fdmVars, m_useCaller, m_threadCount, m_rootThread, m_stopping, m_tasks, m_idleThreadCount,
                   m_threads, m_pendingEventCount, t_thread_fiber, t_scheduler_fiber, t_scheduler, m_cb,
                   m_runInScheduler, ipc, cbs, fpc, cpc, stopTid, nextTaskId,
                   removed>>

\* a callback task: a fresh fiber around the callback, locked and resumed
RunCb(d) ==
    /\ Alive
    /\ pc[d] = "cb"
    /\ exec[d] = RunStack(d)
    /\ LET f == CbFiber(d)
       IN  /\ m_mutex' = [m_mutex EXCEPT ![f] = d]
           /\ m_cb' = [m_cb EXCEPT ![f] = TRUE]
           /\ m_state' = [m_state EXCEPT ![f] = "RUNNING"]
           /\ t_fiber' = [t_fiber EXCEPT ![d] = f]
           /\ m_ctx' = [m_ctx EXCEPT ![SwitchPeer(d, f)] = exec[d], ![f] = f]
           /\ exec' = [exec EXCEPT ![d] = f]
    /\ runs' = [runs EXCEPT ![task[d].id] = @ + 1]
    /\ pc' = [pc EXCEPT ![d] = "inTask"]
    /\ UNCHANGED <<timerVars, fdVars, hookVars, tblVars, lkVars, fdmVars, m_useCaller, m_threadCount, m_rootThread, m_stopping, m_tasks, m_activeThreadCount,
                   m_idleThreadCount, m_threads, m_pendingEventCount, t_thread_fiber, t_scheduler_fiber, t_scheduler,
                   m_runInScheduler, task, ipc, cbs, fpc, cpc, stopTid,
                   aborted, nextTaskId, removed>>

\* resume() has returned: unlock the fiber, m_activeThreadCount--, task.reset()
RunTaskDone(d) ==
    /\ Alive
    /\ pc[d] = "inTask"
    /\ exec[d] = RunStack(d)
    /\ LET f == IF task[d].fiber # NoFiber THEN task[d].fiber ELSE CbFiber(d)
       IN  /\ m_mutex' = [m_mutex EXCEPT ![f] = NoThread]
           /\ m_state' = IF f = CbFiber(d)
                         THEN [m_state EXCEPT ![f] = "NONE"] ELSE m_state
    /\ m_activeThreadCount' = m_activeThreadCount - 1
    /\ task' = [task EXCEPT ![d] = NoTask]
    /\ pc' = [pc EXCEPT ![d] = "scan"]
    /\ UNCHANGED <<timerVars, fdVars, hookVars, tblVars, lkVars, fdmVars, m_useCaller, m_threadCount, m_rootThread, m_stopping, m_tasks, m_idleThreadCount,
                   m_threads, m_pendingEventCount, t_thread_fiber, t_scheduler_fiber, t_scheduler, t_fiber, m_ctx,
                   exec, m_cb, m_runInScheduler, ipc, cbs, fpc, cpc, stopTid,
                   aborted, nextTaskId, removed, runs>>

\* no task: leave the loop when the idle fiber is TERM (on the root thread
\* run() returns into the scheduler fiber's MainFunc, which ends it),
\* otherwise m_idleThreadCount++ and resume the idle fiber
RunIdle(d) ==
    /\ Alive
    /\ pc[d] = "idle"
    /\ exec[d] = RunStack(d)
    /\ IF m_state[IdleFiber(d)] = "TERM"
       THEN /\ pc' = [pc EXCEPT ![d] = "exited"]
            /\ IF d = m_rootThread
               THEN /\ m_cb' = [m_cb EXCEPT ![SchedFiber] = FALSE]
                    /\ Yield(d, SchedFiber, "TERM")
               ELSE UNCHANGED <<m_state, t_fiber, m_ctx, exec, m_cb>>
            /\ UNCHANGED <<m_idleThreadCount, aborted>>
       ELSE IF m_state[IdleFiber(d)] = "READY"
       THEN /\ m_idleThreadCount' = m_idleThreadCount + 1
            /\ Resume(d, IdleFiber(d))
            /\ pc' = [pc EXCEPT ![d] = "inIdle"]
            /\ UNCHANGED <<m_cb, aborted>>
       ELSE /\ aborted' = "resume_assert"
            /\ UNCHANGED <<m_state, t_fiber, m_ctx, exec, m_cb, m_idleThreadCount, pc>>
    /\ UNCHANGED <<timerVars, fdVars, hookVars, tblVars, lkVars, fdmVars, m_useCaller, m_threadCount, m_rootThread, m_stopping, m_tasks, m_activeThreadCount,
                   m_threads, m_pendingEventCount, t_thread_fiber, t_scheduler_fiber, t_scheduler, m_runInScheduler,
                   m_mutex, task, ipc, cbs, fpc, cpc, stopTid, nextTaskId, removed, runs>>

(***************************************************************************)
(* TimerManager::addTimer(ms, cb, recurring): the Timer constructor        *)
(* (m_next = now + ms) and the insert.                                     *)
(***************************************************************************)
AddTimer(ms, cb, recurring) ==
    LET id == tmCount + 1
        next2 == [m_next EXCEPT ![id] = now + ms]
        r == AddTimerPtr(next2, m_timers, m_tickled, id)
    IN  /\ tmCount' = id
        /\ m_next' = next2
        /\ m_ms' = [m_ms EXCEPT ![id] = ms]
        /\ m_recurring' = [m_recurring EXCEPT ![id] = recurring]
        /\ tm_cb' = [tm_cb EXCEPT ![id] = cb]
        /\ m_timers' = r.timers
        /\ m_tickled' = r.tickled

(***************************************************************************)
(* The idle fiber of dispatcher d: IOManager::idle.                        *)
(***************************************************************************)
\* IOManager::stopping(), first and second operand: getNextTimer() == ~0ull
\* && m_pendingEventCount == 0 (no action of this specification changes
\* m_pendingEventCount, so the two reads are taken together)
IdleStopping1(d) ==
    /\ Alive
    /\ exec[d] = IdleFiber(d)
    /\ ipc[d] = "top"
    /\ m_tickled' = FALSE
    /\ ipc' = [ipc EXCEPT ![d] =
                 IF GetNextTimer(m_timers, m_next, now) = NoTimeout
                    /\ m_pendingEventCount = 0
                 THEN "stop3" ELSE "wait"]
    /\ UNCHANGED <<now, m_timers, m_previouseTime, tmCount, m_next, m_ms, m_recurring, tm_cb, frontCalls, collected, lastOp, rst, fdVars, hookVars, tblVars, lkVars, fdmVars,
                   quietVars, m_activeThreadCount, m_idleThreadCount, m_mutex, pc, task, fpc, aborted, m_state, t_fiber, m_ctx, exec, m_cb, m_tasks, cbs, nextTaskId, removed, runs>>

\* IOManager::stopping(), third operand: Scheduler::stopping().  When it is
\* true idle() returns: MainFunc clears the callback, sets TERM and yields
IdleStopping3(d) ==
    /\ Alive
    /\ exec[d] = IdleFiber(d)
    /\ ipc[d] = "stop3"
    /\ IF SchedulerStopping
       THEN /\ m_cb' = [m_cb EXCEPT ![IdleFiber(d)] = FALSE]
            /\ Yield(d, IdleFiber(d), "TERM")
            /\ ipc' = [ipc EXCEPT ![d] = "done"]
       ELSE /\ ipc' = [ipc EXCEPT ![d] = "wait"]
            /\ UNCHANGED <<m_state, t_fiber, m_ctx, exec, m_cb>>
    /\ UNCHANGED <<timerVars, fdVars, hookVars, tblVars, lkVars, fdmVars, quietVars, m_activeThreadCount, m_idleThreadCount, m_mutex, pc, task, fpc, aborted, m_tasks, cbs, nextTaskId, removed, runs>>

\* getNextTimer() for the timeout, epoll_wait returns, listExpiredCb(cbs)
IdleCollect(d) ==
    /\ Alive
    /\ exec[d] = IdleFiber(d)
    /\ ipc[d] = "wait"
    /\ LET r == ListExpiredCb(m_timers, m_next, tm_cb, now, m_previouseTime)
       IN  /\ m_timers' = r.timers
           /\ m_next' = r.next
           /\ tm_cb' = r.cb
           /\ cbs' = [cbs EXCEPT ![d] = [i \in 1..Len(r.cbs) |-> r.cbs[i][2]]]
    /\ m_tickled' = FALSE
    /\ m_previouseTime' = now
    /\ ipc' = [ipc EXCEPT ![d] = "push"]
    /\ ep_events' = [ep_events EXCEPT ![d] =
                        IF m_tickleFds THEN {TickleEntry} ELSE {}]
    /\ UNCHANGED <<now, tmCount, m_ms, m_recurring, frontCalls, collected, lastOp, rst, events, event_ctx, m_epfd, m_tickleFds, lastIo, ioPrev, hookVars, tblVars, lkVars, fdmVars,
                   quietVars, m_activeThreadCount, m_idleThreadCount, m_mutex, pc, task, fpc, aborted, m_state, t_fiber, m_ctx, exec, m_cb, m_tasks, nextTaskId, removed, runs>>

\* scheduleLock(cb) for the next collected callback
IdlePush(d) ==
    /\ Alive
    /\ exec[d] = IdleFiber(d)
    /\ ipc[d] = "push"
    /\ cbs[d] # <<>>
    /\ m_tasks' = PushTask(m_tasks, NoFiber, Head(cbs[d]), AnyThread, nextTaskId)
    /\ nextTaskId' = nextTaskId + 1
    /\ m_tickleFds' = Tickle(m_tickleFds, m_idleThreadCount, m_tasks = <<>>)
    /\ cbs' = [cbs EXCEPT ![d] = Tail(@)]
    /\ UNCHANGED <<timerVars, events, event_ctx, m_epfd, ep_events, lastIo, ioPrev, hookVars, tblVars, lkVars, fdmVars, quietVars, m_activeThreadCount, m_idleThreadCount, m_mutex, pc, task, fpc, aborted, m_state, t_fiber, m_ctx, exec, m_cb, ipc,
                   removed, runs>>

\* no ready event is left: Fiber::GetThis()->yield()
IdleYield(d) ==
    /\ Alive
    /\ exec[d] = IdleFiber(d)
    /\ ipc[d] = "push"
    /\ cbs[d] = <<>>
    /\ Yield(d, IdleFiber(d), m_state[IdleFiber(d)])
    /\ ipc' = [ipc EXCEPT ![d] = "top"]
    /\ m_tickleFds' = IF TickleEntry \in ep_events[d] THEN FALSE
                      ELSE m_tickleFds
    /\ ep_events' = [ep_events EXCEPT ![d] = {}]
    /\ UNCHANGED <<timerVars, events, event_ctx, m_epfd, lastIo, ioPrev, hookVars, tblVars, lkVars, fdmVars, quietVars, m_activeThreadCount, m_idleThreadCount, m_mutex, pc, task, fpc, aborted, m_cb, m_tasks, cbs, nextTaskId, removed, runs>>

(***************************************************************************)
(* Task fibers running on thread d.                                        *)
(***************************************************************************)
\* hooked sleep, first half: addTimer(ms, [fiber, iom]{scheduleLock(fiber)})
FiberSleep(d, ms) ==
    /\ Alive
    /\ exec[d] \in UserFibers
    /\ fpc[exec[d]] = "body"
    /\ tmCount < MaxTimers
    /\ now + ms <= MaxClock
    /\ AddTimer(ms, WakeCb(exec[d]), FALSE)
    /\ fpc' = [fpc EXCEPT ![exec[d]] = "armed"]
    /\ m_tickleFds' =
          Tickle(m_tickleFds, m_idleThreadCount,
                 AddTimerPtr([m_next EXCEPT ![tmCount + 1] = now + ms],
                             m_timers, m_tickled, tmCount + 1).at_front)
    /\ UNCHANGED <<now, m_previouseTime, frontCalls, collected, lastOp, rst, events, event_ctx, m_epfd, ep_events, lastIo, ioPrev, hookVars, tblVars, lkVars, fdmVars, quietVars,
                   m_activeThreadCount, m_idleThreadCount, m_mutex, pc, task,
                   aborted, m_state, t_fiber, m_ctx, exec, m_cb, m_tasks, ipc, cbs, nextTaskId, removed, runs>>

\* hooked sleep, second half: fiber->yield()
FiberYield(d) ==
    /\ Alive
    /\ exec[d] \in UserFibers
    /\ fpc[exec[d]] = "armed"
    /\ Yield(d, exec[d], m_state[exec[d]])
    /\ fpc' = [fpc EXCEPT ![exec[d]] = "body"]
    /\ UNCHANGED <<timerVars, fdVars, hookVars, tblVars, lkVars, fdmVars, quietVars, m_activeThreadCount, m_idleThreadCount,
                   m_mutex, pc, task, aborted, m_cb, m_tasks, ipc, cbs, nextTaskId, removed, runs>>

\* the user entry returns: MainFunc clears m_cb, sets TERM, yields
FiberReturn(d) ==
    /\ Alive
    /\ exec[d] \in UserFibers
    /\ fpc[exec[d]] = "body"
    /\ m_cb' = [m_cb EXCEPT ![exec[d]] = FALSE]
    /\ Yield(d, exec[d], "TERM")
    /\ fpc' = [fpc EXCEPT ![exec[d]] = "done"]
    /\ UNCHANGED <<timerVars, fdVars, hookVars, tblVars, lkVars, fdmVars, quietVars, m_activeThreadCount, m_idleThreadCount,
                   m_mutex, pc, task, aborted, m_tasks, ipc, cbs, nextTaskId, removed, runs>>

\* a callback task runs in its fiber and returns: a sleep timer's callback
\* calls scheduleLock(fiber, -1), an application callback does nothing here
CbRun(d) ==
    /\ Alive
    /\ exec[d] = CbFiber(d)
    /\ LET cb == task[d].cb
       IN  IF cb[1] = "wake"
           THEN /\ m_tasks' = PushTask(m_tasks, UserFiber(cb[2]), NoCb,
                                       AnyThread, nextTaskId)
                /\ nextTaskId' = nextTaskId + 1
                /\ m_tickleFds' = Tickle(m_tickleFds, m_idleThreadCount,
                                         m_tasks = <<>>)
           ELSE UNCHANGED <<m_tasks, nextTaskId, m_tickleFds>>
    /\ m_cb' = [m_cb EXCEPT ![CbFiber(d)] = FALSE]
    /\ Yield(d, CbFiber(d), "TERM")
    /\ UNCHANGED <<timerVars, events, event_ctx, m_epfd, ep_events, lastIo, ioPrev, hookVars, tblVars, lkVars, fdmVars, quietVars, m_activeThreadCount, m_idleThreadCount, m_mutex, pc, task, fpc, aborted, ipc, cbs, removed, runs>>

\* the wall clock advances.  Only deadlines read the clock, so in this
\* specification time is let pass only while a timer that is not yet due is
\* in the set
Tick ==
    /\ Alive
    /\ now < MaxClock
    /\ \E i \in m_timers : m_next[i] > now
    /\ now' = now + 1
    /\ UNCHANGED <<m_timers, m_tickled, m_previouseTime, tmCount, m_next, m_ms, m_recurring, tm_cb,
                   frontCalls, collected, lastOp, rst, schedVars, fdVars, hookVars, tblVars, lkVars, fdmVars>>

Next ==
    \/ \E f \in UserFibers, thr \in PinChoices : AppSchedule(f, NoCb, thr)
    \/ \E thr \in PinChoices : AppSchedule(NoFiber, UserCb, thr)
    \/ AppStart
    \/ \E f \in UserFibers : AppReset(f)
    \/ \E s \in {RootTid, OtherTid} : StopBegin(s)
    \/ StopResume
    \/ StopJoin
    \/ \E d \in Dispatchers :
          \/ RunStart(d)
          \/ RunScan(d)
          \/ RunFiber(d)
          \/ RunCb(d)
          \/ RunTaskDone(d)
          \/ RunIdle(d)
          \/ IdleStopping1(d)
          \/ IdleStopping3(d)
          \/ IdleCollect(d)
          \/ IdlePush(d)
          \/ IdleYield(d)
          \/ \E ms \in 1..MaxMs : FiberSleep(d, ms)
          \/ FiberYield(d)
          \/ FiberReturn(d)
          \/ CbRun(d)
    \/ Tick

Spec == Init /\ [][Next]_vars

(***************************************************************************)
(* The timer manager alone, driven by its public operations from any       *)
(* thread.  The scheduler's state is left as constructed.                  *)
(***************************************************************************)
\* TimerManager::addTimer(ms, cb, recurring), with the call of
\* onTimerInsertedAtFront counted
TmAddTimer(ms, recurring) ==
    /\ tmCount < MaxTimers
    /\ now + ms <= MaxClock
    /\ AddTimer(ms, TimerCb(tmCount + 1), recurring)
    /\ LET r == AddTimerPtr([m_next EXCEPT ![tmCount + 1] = now + ms],
                            m_timers, m_tickled, tmCount + 1)
       IN  /\ frontCalls' = frontCalls + (IF r.at_front THEN 1 ELSE 0)
           /\ lastOp' = <<"add", tmCount + 1, r.at_front>>
    /\ UNCHANGED <<now, m_previouseTime, collected, rst, schedVars, fdVars, hookVars, tblVars, lkVars, fdmVars>>

\* Timer::cancel on timer i
TmCancel(i) ==
    /\ i \in 1..tmCount
    /\ IF tm_cb[i] = NoCb
       THEN /\ lastOp' = <<"cancel", i, FALSE>>
            /\ UNCHANGED <<tm_cb, m_timers>>
       ELSE /\ tm_cb' = [tm_cb EXCEPT ![i] = NoCb]
            /\ m_timers' = m_timers \ {SetFind(m_next, m_timers, i)}
            /\ lastOp' = <<"cancel", i, TRUE>>
    /\ UNCHANGED <<now, m_tickled, m_previouseTime, tmCount, m_next, m_ms,
                   m_recurring, frontCalls, collected, rst, schedVars, fdVars, hookVars, tblVars, lkVars, fdmVars>>

\* TimerManager::listExpiredCb(cbs), with the callbacks collected counted
TmListExpired ==
    /\ LET r == ListExpiredCb(m_timers, m_next, tm_cb, now, m_previouseTime)
           n(i) == Cardinality({k \in 1..Len(r.cbs) : r.cbs[k][1] = i})
       IN  /\ m_timers' = r.timers
           /\ m_next' = r.next
           /\ tm_cb' = r.cb
           /\ collected' = [i \in TimerIds |-> collected[i] + n(i)]
           /\ lastOp' = <<"list", Len(r.cbs), FALSE>>
    /\ m_previouseTime' = now
    /\ UNCHANGED <<now, m_tickled, tmCount, m_ms, m_recurring, frontCalls,
                   rst, schedVars, fdVars, hookVars, tblVars, lkVars, fdmVars>>

\* TimerManager::getNextTimer()
TmGetNextTimer ==
    /\ m_tickled' = FALSE
    /\ lastOp' = <<"next", GetNextTimer(m_timers, m_next, now), FALSE>>
    /\ UNCHANGED <<now, m_timers, m_previouseTime, tmCount, m_next, m_ms, m_recurring, tm_cb, frontCalls,
                   collected, rst, schedVars, fdVars, hookVars, tblVars, lkVars, fdmVars>>

\* Timer::refresh on timer i: erase, m_next = now + m_ms, insert, all under
\* the write lock
TmRefresh(i) ==
    /\ i \in 1..tmCount
    /\ LET it == SetFind(m_next, m_timers, i)
           next2 == [m_next EXCEPT ![i] = now + m_ms[i]]
       IN  IF tm_cb[i] = NoCb \/ it = NoTimer
           THEN /\ lastOp' = <<"refresh", i, FALSE>>
                /\ UNCHANGED <<m_timers, m_next>>
           ELSE /\ m_next' = next2
                /\ m_timers' = SetInsert(next2, m_timers \ {it}, i)
                /\ lastOp' = <<"refresh", i, TRUE>>
    /\ UNCHANGED <<now, m_tickled, m_previouseTime, tmCount, m_ms, m_recurring,
                   tm_cb, frontCalls, collected, rst, schedVars, fdVars, hookVars, tblVars, lkVars, fdmVars>>

\* Timer::reset(ms, from_now) on timer i, up to the end of the block that
\* holds the write lock: the early return, the two failures, or the erase
TmResetErase(i, ms, from_now) ==
    /\ i \in 1..tmCount
    /\ rst[i] = NoReset
    /\ frontCalls < MaxFront
    /\ m_recurring[i] => ms >= 1
    /\ LET it == SetFind(m_next, m_timers, i)
       IN  IF ms = m_ms[i] /\ ~from_now
           THEN /\ lastOp' = <<"reset", i, TRUE>>
                /\ UNCHANGED <<m_timers, rst>>
           ELSE IF tm_cb[i] = NoCb \/ it = NoTimer
           THEN /\ lastOp' = <<"reset", i, FALSE>>
                /\ UNCHANGED <<m_timers, rst>>
           ELSE /\ m_timers' = m_timers \ {it}
                /\ rst' = [rst EXCEPT ![i] = <<"write", ms, from_now>>]
                /\ lastOp' = <<"erase", i, TRUE>>
    /\ UNCHANGED <<now, m_tickled, m_previouseTime, tmCount, m_next, m_ms, m_recurring, tm_cb, frontCalls,
                   collected, schedVars, fdVars, hookVars, tblVars, lkVars, fdmVars>>

\* Timer::reset, after the lock is released: the clock is read and m_ms and
\* m_next are written
TmResetWrite(i) ==
    /\ i \in 1..tmCount
    /\ rst[i][1] = "write"
    /\ LET ms == rst[i][2]
           start == IF rst[i][3] THEN now ELSE m_next[i] - m_ms[i]
       IN  /\ m_ms' = [m_ms EXCEPT ![i] = ms]
           /\ m_next' = [m_next EXCEPT ![i] = start + ms]
    /\ rst' = [rst EXCEPT ![i] = <<"insert", rst[i][2], rst[i][3]>>]
    /\ lastOp' = <<"write", i, TRUE>>
    /\ UNCHANGED <<now, m_timers, m_tickled, m_previouseTime, tmCount,
                   m_recurring, tm_cb, frontCalls, collected, schedVars, fdVars, hookVars, tblVars, lkVars, fdmVars>>

\* Timer::reset, last statement: m_manager->addTimer(shared_from_this())
TmResetInsert(i) ==
    /\ i \in 1..tmCount
    /\ rst[i][1] = "insert"
    /\ LET r == AddTimerPtr(m_next, m_timers, m_tickled, i)
       IN  /\ m_timers' = r.timers
           /\ m_tickled' = r.tickled
           /\ frontCalls' = frontCalls + (IF r.at_front THEN 1 ELSE 0)
    /\ rst' = [rst EXCEPT ![i] = NoReset]
    /\ lastOp' = <<"reset", i, TRUE>>
    /\ UNCHANGED <<now, m_previouseTime, tmCount, m_next, m_ms, m_recurring, tm_cb, collected, schedVars, fdVars, hookVars, tblVars, lkVars, fdmVars>>

\* the wall clock advances
TmTick ==
    /\ now < MaxClock
    /\ now' = now + 1
    /\ UNCHANGED <<m_timers, m_tickled, m_previouseTime, tmCount, m_next, m_ms, m_recurring, tm_cb,
                   frontCalls, collected, lastOp, rst, schedVars, fdVars, hookVars, tblVars, lkVars, fdmVars>>

InitTimer == Init /\ ~m_useCaller /\ m_threadCount = 1

NextTimer ==
    \/ \E ms \in 0..MaxMs : TmAddTimer(ms, FALSE)
    \/ \E ms \in 1..MaxMs : TmAddTimer(ms, TRUE)
    \/ \E i \in TimerIds : TmCancel(i)
    \/ \E i \in TimerIds : TmRefresh(i)
    \/ \E i \in TimerIds, ms \in 0..MaxMs, from_now \in BOOLEAN :
          TmResetErase(i, ms, from_now)
    \/ \E i \in TimerIds : TmResetWrite(i)
    \/ \E i \in TimerIds : TmResetInsert(i)
    \/ TmListExpired
    \/ TmGetNextTimer
    \/ TmTick

SpecTimer == InitTimer /\ [][NextTimer]_vars

(***************************************************************************)
(* The timer manager under a wall clock that is set: system_clock is not   *)
(* monotonic, listExpiredCb and the Timer constructor read whatever it     *)
(* shows.                                                                  *)
(***************************************************************************)
\* the wall clock is set to t, forwards or backwards.  Forwards only before
\* the first timer is made, which keeps the deadlines of the model bounded
TmClockSet(t) ==
    /\ t # now
    /\ t > now => tmCount = 0
    /\ now' = t
    /\ UNCHANGED <<m_timers, m_tickled, m_previouseTime, tmCount, m_next, m_ms, m_recurring, tm_cb,
                   frontCalls, collected, lastOp, rst, schedVars, fdVars, hookVars, tblVars, lkVars, fdmVars>>

NextRoll ==
    \/ \E ms \in 0..MaxMs : TmAddTimer(ms, FALSE)
    \/ \E ms \in 1..MaxMs : TmAddTimer(ms, TRUE)
    \/ TmListExpired
    \/ TmTick
    \/ \E t \in {0, RolloverMs + MaxClock} : TmClockSet(t)

SpecRoll == InitTimer /\ [][NextRoll]_vars

(***************************************************************************)
(* The reactor's fd contexts, driven by addEvent, delEvent, cancelEvent,   *)
(* cancelAll and the readiness processing of idle() from any thread.  Each *)
(* action is one critical section of the fd's mutex.  The scheduler is     *)
(* left as constructed: the constructing thread has t_scheduler set, a     *)
(* thread that is neither it nor a worker has not.                         *)
(***************************************************************************)
\* what the fd operations leave alone in the scheduler
ioQuiet ==
    <<m_useCaller, m_threadCount, m_rootThread, m_stopping, m_activeThreadCount, m_idleThreadCount, m_threads,
      t_scheduler, m_cb, m_runInScheduler, m_mutex, m_ctx, pc, task, ipc, cbs,
      fpc, cpc, stopTid, removed, runs, m_tickleFds>>

\* the bits set in all masks
RECURSIVE BitsUpTo(_)
BitsUpTo(fd) ==
    IF fd < 0 THEN 0 ELSE Cardinality(events[fd]) + BitsUpTo(fd - 1)


\* a faulty variant of AlreadyAdded: the test never finds the event
AlreadyAddedNever(mask, event) == FALSE

\* addEvent's test fd_ctx->events & event
AlreadyAdded(mask, event) == event \in mask

\* a faulty variant of ResetEventContext: the fiber and callback are kept
ResetSchedulerOnly(ctx) == [ctx EXCEPT !.scheduler = FALSE]

\* FdContext::resetEventContext
ResetEventContext(ctx) == EmptyCtx

\* the conversion of an int return value to the bool a function returns
\* (1 is true, 0 is false)
RetBool(x) == IF x # 0 THEN 1 ELSE 0

\* a faulty variant of CountAfterTrigger: the count is left as it is
CountKept(n) == n

\* --m_pendingEventCount after a trigger
CountAfterTrigger(n) == n - 1

\* Fiber::GetThis() on thread t: the fiber returned
GetThisFiber(t) == IF t_fiber[t] # NoFiber THEN t_fiber[t] ELSE MainFiber(t)

\* the state of one fd's context and of what a trigger writes
FdState(fd) ==
    [events |-> events[fd], ctx |-> event_ctx[fd], tasks |-> m_tasks,
     nextId |-> nextTaskId, count |-> m_pendingEventCount, aborted |-> aborted]

\* FdContext::triggerEvent(event): the assertion, the bit cleared, the
\* waiter given to scheduleLock of the slot's scheduler, the slot reset.  A
\* null scheduler pointer is dereferenced there, which ends the process
TriggerEvent(st, event) ==
    IF st.aborted # "none" THEN st
    ELSE IF event \notin st.events
    THEN [st EXCEPT !.aborted = "trigger_assert"]
    ELSE IF ~st.ctx[event].scheduler
    THEN [st EXCEPT !.events = @ \ {event}, !.aborted = "null_scheduler"]
    ELSE [st EXCEPT !.events = @ \ {event},
                    !.tasks = PushTask(@, st.ctx[event].fiber,
                                       st.ctx[event].cb, AnyThread, st.nextId),
                    !.nextId = @ + 1,
                    !.ctx = [@ EXCEPT ![event] = ResetEventContext(@)]]

\* triggerEvent(event); --m_pendingEventCount; as cancelAll and idle() do
TriggerAndCount(st, event) ==
    LET s2 == TriggerEvent(st, event)
    IN  IF s2.aborted # "none" THEN s2
        ELSE [s2 EXCEPT !.count = CountAfterTrigger(@)]

\* the state st written back to fd's context
WriteFdState(fd, st) ==
    /\ events' = [events EXCEPT ![fd] = st.events]
    /\ event_ctx' = [event_ctx EXCEPT ![fd] = st.ctx]
    /\ m_tasks' = st.tasks
    /\ nextTaskId' = st.nextId
    /\ m_pendingEventCount' = st.count
    /\ aborted' = st.aborted

\* thread t is inside FdManager::get or inside the hooked close
InFdCall(t) == gpc[t] # NoGet \/ (kpc.pc # "off" /\ kpc.t = t)

\* IOManager::addEvent(fd, event, cb) called on thread t; rt is what
\* epoll_ctl returns
IoAddEvent(t, fd, event, cb, rt) ==
    /\ Alive
    /\ ~InFdCall(t)
    /\ BitsUpTo(MaxFd) + Len(m_tasks) < MaxSched
    /\ ioPrev' = [fd |-> fd, event |-> event, events |-> events[fd],
                  ctx |-> event_ctx[fd], count |-> m_pendingEventCount,
                  epfd |-> m_epfd[fd]]
    /\ IF AlreadyAdded(events[fd], event) \/ rt # 0
       THEN /\ lastIo' = <<"add", fd, event, -1>>
            /\ UNCHANGED <<events, event_ctx, m_epfd, m_pendingEventCount,
                           aborted, t_fiber, t_thread_fiber, t_scheduler_fiber, m_state, exec>>
       ELSE /\ m_epfd' = [m_epfd EXCEPT ![fd] = events[fd] \cup {event}]
            /\ m_pendingEventCount' = m_pendingEventCount + 1
            /\ events' = [events EXCEPT ![fd] = @ \cup {event}]
            /\ IF event_ctx[fd][event] # EmptyCtx
               THEN /\ aborted' = "add_assert"
                    /\ lastIo' = <<"abort", fd, event, 0>>
                    /\ UNCHANGED <<event_ctx, t_fiber, t_thread_fiber, t_scheduler_fiber, m_state, exec>>
               ELSE /\ event_ctx' =
                         [event_ctx EXCEPT ![fd][event] =
                             [scheduler |-> t_scheduler[t],
                              fiber |-> IF cb # NoCb THEN NoFiber
                                        ELSE GetThisFiber(t),
                              cb |-> cb]]
                    /\ IF cb = NoCb /\ t_fiber[t] = NoFiber
                       THEN /\ t_fiber' = [t_fiber EXCEPT ![t] = MainFiber(t)]
                            /\ t_thread_fiber' =
                                  [t_thread_fiber EXCEPT ![t] = MainFiber(t)]
                            /\ t_scheduler_fiber' =
                                  [t_scheduler_fiber EXCEPT ![t] = MainFiber(t)]
                            /\ m_state' =
                                  [m_state EXCEPT ![MainFiber(t)] = "RUNNING"]
                            /\ exec' = [exec EXCEPT ![t] = MainFiber(t)]
                       ELSE UNCHANGED <<t_fiber, t_thread_fiber, t_scheduler_fiber, m_state, exec>>
                    /\ lastIo' = <<"add", fd, event, 0>>
                    /\ UNCHANGED aborted
    /\ UNCHANGED <<timerVars, hookVars, tblVars, lkVars, fdmVars, ioQuiet, m_tasks, nextTaskId, ep_events>>

\* IOManager::delEvent(fd, event).  After a failed epoll_ctl the function
\* executes `return -1`, which its bool return type turns into true
IoDelEvent(fd, event, rt) ==
    /\ Alive
    /\ IF event \notin events[fd]
       THEN /\ lastIo' = <<"del", fd, event, 0>>
            /\ UNCHANGED <<events, event_ctx, m_epfd, m_pendingEventCount>>
       ELSE IF rt # 0
       THEN /\ lastIo' = <<"del", fd, event, RetBool(-1)>>
            /\ UNCHANGED <<events, event_ctx, m_epfd, m_pendingEventCount>>
       ELSE /\ m_epfd' = [m_epfd EXCEPT ![fd] = events[fd] \ {event}]
            /\ m_pendingEventCount' = m_pendingEventCount - 1
            /\ events' = [events EXCEPT ![fd] = @ \ {event}]
            /\ event_ctx' = [event_ctx EXCEPT ![fd][event] =
                                ResetEventContext(@)]
            /\ lastIo' = <<"del", fd, event, 1>>
    /\ ioPrev' = IF lastIo = <<"add", fd, event, 0>> THEN ioPrev ELSE NoSnapshot
    /\ UNCHANGED <<timerVars, hookVars, tblVars, lkVars, fdmVars, ioQuiet, t_fiber, t_thread_fiber, t_scheduler_fiber, m_state, exec, m_tasks, nextTaskId, aborted,
                   ep_events>>

\* IOManager::cancelEvent(fd, event)
IoCancelEvent(fd, event, rt) ==
    /\ Alive
    /\ IF event \notin events[fd]
       THEN /\ lastIo' = <<"cancel", fd, event, 0>>
            /\ UNCHANGED <<events, event_ctx, m_epfd, m_pendingEventCount,
                           m_tasks, nextTaskId, aborted>>
       ELSE IF rt # 0
       THEN /\ lastIo' = <<"cancel", fd, event, RetBool(-1)>>
            /\ UNCHANGED <<events, event_ctx, m_epfd, m_pendingEventCount,
                           m_tasks, nextTaskId, aborted>>
       ELSE /\ m_epfd' = [m_epfd EXCEPT ![fd] = events[fd] \ {event}]
            /\ WriteFdState(fd,
                  TriggerEvent([FdState(fd) EXCEPT
                                   !.count = m_pendingEventCount - 1], event))
            /\ lastIo' = <<"cancel", fd, event, 1>>
    /\ ioPrev' = NoSnapshot
    /\ UNCHANGED <<timerVars, hookVars, tblVars, lkVars, fdmVars, ioQuiet, t_fiber, t_thread_fiber, t_scheduler_fiber, m_state, exec, ep_events>>

\* IOManager::cancelAll(fd) under the fd's mutex; rt is what epoll_ctl
\* returns
CancelAll(fd, rt) ==
    IF events[fd] = {}
    THEN /\ lastIo' = <<"cancelAll", fd, 0, 0>>
         /\ UNCHANGED <<events, event_ctx, m_epfd, m_pendingEventCount,
                        m_tasks, nextTaskId, aborted>>
    ELSE IF rt # 0
    THEN /\ lastIo' = <<"cancelAll", fd, 0, RetBool(-1)>>
         /\ UNCHANGED <<events, event_ctx, m_epfd, m_pendingEventCount,
                        m_tasks, nextTaskId, aborted>>
    ELSE /\ m_epfd' = [m_epfd EXCEPT ![fd] = {}]
         /\ LET s0 == FdState(fd)
                s1 == IF READ \in s0.events
                      THEN TriggerAndCount(s0, READ) ELSE s0
                s2 == IF WRITE \in s1.events /\ s1.aborted = "none"
                      THEN TriggerAndCount(s1, WRITE) ELSE s1
            IN  WriteFdState(fd, s2)
         /\ lastIo' = <<"cancelAll", fd, 0, 1>>

\* IOManager::cancelAll(fd)
IoCancelAll(fd, rt) ==
    /\ Alive
    /\ CancelAll(fd, rt)
    /\ ioPrev' = NoSnapshot
    /\ UNCHANGED <<timerVars, hookVars, tblVars, lkVars, fdmVars, ioQuiet, t_fiber, t_thread_fiber, t_scheduler_fiber, m_state, exec, ep_events>>

\* what epoll_wait can report for fd: some of the events it is watched for,
\* or an error / hang-up
ReadyEntries(fd) ==
    {[fd |-> fd, evs |-> e, hup |-> FALSE] : e \in (SUBSET m_epfd[fd]) \ {{}}}
        \cup (IF m_epfd[fd] # {}
              THEN {[fd |-> fd, evs |-> {}, hup |-> TRUE]} ELSE {})


\* idle() of dispatcher d: epoll_wait returns with at most one entry per fd
IoEpollWait(d) ==
    /\ Alive
    /\ ep_events[d] = {}
    /\ \E S \in SUBSET (UNION {ReadyEntries(fd) : fd \in Fds}) :
          /\ S # {}
          /\ Cardinality(S) <= MaxReady
          /\ \A a, b \in S : a.fd = b.fd => a = b
          /\ ep_events' = [ep_events EXCEPT ![d] = S]
    /\ lastIo' = <<"wait", d, 0, 0>>
    /\ ioPrev' = NoSnapshot
    /\ UNCHANGED <<timerVars, schedVars, hookVars, tblVars, lkVars, fdmVars, events, event_ctx, m_epfd,
                   m_tickleFds>>

\* idle() of dispatcher d: the body of one iteration of the loop over the
\* entries, for entry e, under the fd's mutex; rt2 is what epoll_ctl returns
IoProcessEntry(d, e, rt2) ==
    /\ ep_events' = [ep_events EXCEPT ![d] = @ \ {e}]
    /\ LET real_events == e.evs \cup (IF e.hup THEN events[e.fd] ELSE {})
           left_events == events[e.fd] \ real_events
       IN  IF events[e.fd] \cap real_events = {} \/ rt2 # 0
           THEN UNCHANGED <<events, event_ctx, m_epfd, m_pendingEventCount,
                           m_tasks, nextTaskId, aborted>>
           ELSE /\ m_epfd' = [m_epfd EXCEPT ![e.fd] = left_events]
                /\ LET s0 == FdState(e.fd)
                       s1 == IF READ \in real_events
                             THEN TriggerAndCount(s0, READ) ELSE s0
                       s2 == IF WRITE \in real_events /\ s1.aborted = "none"
                             THEN TriggerAndCount(s1, WRITE) ELSE s1
                   IN  WriteFdState(e.fd, s2)
    /\ lastIo' = <<"process", e.fd, 0, 0>>

\* idle() of dispatcher d: the next entry is processed
IoProcess(d, rt2) ==
    /\ Alive
    /\ \E e \in ep_events[d] : IoProcessEntry(d, e, rt2)
    /\ ioPrev' = NoSnapshot
    /\ UNCHANGED <<timerVars, hookVars, tblVars, lkVars, fdmVars, ioQuiet, t_fiber, t_thread_fiber, t_scheduler_fiber, m_state, exec>>

InitIo == Init /\ m_threadCount = 1

NextIo ==
    \/ \E t \in IoCallers, fd \in Fds, event \in Events,
          cb \in {NoCb, UserCb}, rt \in {0, -1} :
          IoAddEvent(t, fd, event, cb, rt)
    \/ \E fd \in Fds, event \in Events, rt \in {0, -1} :
          \/ IoDelEvent(fd, event, rt)
          \/ IoCancelEvent(fd, event, rt)
    \/ \E fd \in Fds, rt \in {0, -1} : IoCancelAll(fd, rt)
    \/ \E d \in (1..MaxIdlers) :
          \/ IoEpollWait(d)
          \/ \E rt2 \in {0, -1} : IoProcess(d, rt2)

SpecIo == InitIo /\ [][NextIo]_vars

(***************************************************************************)
(* One hooked read on a socket with a receive timeout (do_io), made by     *)
(* fiber HookFiber on a worker, together with what runs beside it: the     *)
(* idle fiber's readiness processing and timer collection, and the worker  *)
(* that runs the collected timer callback.  The dispatch loop is reduced   *)
(* to its effect: a queued task of the fiber is taken and the fiber        *)
(* resumed.                                                                *)
(***************************************************************************)
HookFiber == UserFiber(1)
\* do_io's fd argument
HookFd == 0
\* do_io's event argument
HookEvent == READ
\* the callback addConditionTimer gives to addTimer:
\* std::bind(&OnTimer, weak_cond, cb)
CondCb == <<"cond", 0>>

\* the owner of the timer_info that is do_io's local `tinfo`
CallRef == <<"tinfo", 0>>
\* the owner that is OnTimer's local `tmp` in the callback of timer i
TmpRef(i) == <<"tmp", i>>

\* a faulty variant of WeakLock: the upgrade succeeds without an owner
WeakLockAlways(refs) == TRUE

\* weak_cond.lock() yields a non-null pointer
WeakLock(refs) == refs # {}

\* what no step of the hooked call changes
hookQuiet ==
    <<ioQuiet, t_fiber, t_thread_fiber, t_scheduler_fiber, m_state, exec, nextTaskId, aborted, ep_events, lastIo, ioPrev,
      now, m_previouseTime, frontCalls, collected, lastOp, rst, fdmVars,
      tblVars, lkVars>>

\* do_io is entered with the hook enabled on a socket that is not
\* user-nonblocking: the timeout is read and tinfo is made
HookEnter ==
    /\ hpc = "off"
    /\ hpc' = "retry"
    /\ tinfo_refs' = {CallRef}
    /\ UNCHANGED <<htimer, tinfo_cancelled, opc, hret, events, event_ctx, m_epfd, m_pendingEventCount,
                   m_timers, m_tickled, tmCount, m_next, m_ms, m_recurring, tm_cb, m_tasks, hookQuiet>>

\* retry: the raw call.  It returns a count, or -1 with EAGAIN; do_io
\* returns the count and its tinfo is released
HookRawCall(eagain) ==
    /\ hpc = "retry"
    /\ eagain => tmCount < MaxTimers
    /\ IF eagain
       THEN /\ hpc' = "eagain"
            /\ UNCHANGED <<tinfo_refs, hret>>
       ELSE /\ hpc' = "returned"
            /\ hret' = "n"
            /\ tinfo_refs' = tinfo_refs \ {CallRef}
    /\ UNCHANGED <<htimer, tinfo_cancelled, opc, events, event_ctx, m_epfd, m_pendingEventCount, m_timers, m_tickled, tmCount, m_next, m_ms, m_recurring, tm_cb,
                   m_tasks, hookQuiet>>

\* timeout != -1: iom->addConditionTimer(timeout, lambda, winfo)
HookAddTimer(ms) ==
    /\ hpc = "eagain"
    /\ now + ms <= MaxClock
    /\ AddTimer(ms, CondCb, FALSE)
    /\ htimer' = tmCount + 1
    /\ hpc' = "armed"
    /\ UNCHANGED <<tinfo_refs, tinfo_cancelled, opc, hret, events, event_ctx, m_epfd, m_pendingEventCount, m_tasks,
                   hookQuiet>>

\* iom->addEvent(fd, event) with the fiber as the waiter; when it fails the
\* timer is cancelled and do_io returns -1
HookAddEvent(rt) ==
    /\ hpc = "armed"
    /\ IF AlreadyAdded(events[HookFd], HookEvent) \/ rt # 0
       THEN /\ tm_cb' = [tm_cb EXCEPT ![htimer] = NoCb]
            /\ m_timers' = IF tm_cb[htimer] = NoCb THEN m_timers
                            ELSE m_timers \ {SetFind(m_next, m_timers, htimer)}
            /\ hpc' = "returned"
            /\ hret' = "add_failed"
            /\ tinfo_refs' = tinfo_refs \ {CallRef}
            /\ UNCHANGED <<events, event_ctx, m_epfd, m_pendingEventCount>>
       ELSE /\ m_epfd' = [m_epfd EXCEPT ![HookFd] = events[HookFd] \cup {HookEvent}]
            /\ m_pendingEventCount' = m_pendingEventCount + 1
            /\ events' = [events EXCEPT ![HookFd] = @ \cup {HookEvent}]
            /\ event_ctx' = [event_ctx EXCEPT ![HookFd][HookEvent] =
                                [scheduler |-> TRUE, fiber |-> HookFiber,
                                 cb |-> NoCb]]
            /\ hpc' = "registered"
            /\ UNCHANGED <<tm_cb, m_timers, hret, tinfo_refs>>
    /\ UNCHANGED <<htimer, tinfo_cancelled, opc, m_tickled, tmCount, m_next,
                   m_ms, m_recurring, m_tasks, hookQuiet>>

\* Fiber::GetThis()->yield()
HookYield ==
    /\ hpc = "registered"
    /\ hpc' = "yielded"
    /\ UNCHANGED <<htimer, tinfo_refs, tinfo_cancelled, opc, hret, events, event_ctx, m_epfd, m_pendingEventCount,
                   m_timers, m_tickled, tmCount, m_next, m_ms, m_recurring, tm_cb, m_tasks, hookQuiet>>

\* a worker takes a queued task of the fiber and resumes it: yield() returns
HookResume ==
    /\ hpc = "yielded"
    /\ \E i \in 1..Len(m_tasks) :
          /\ m_tasks[i].fiber = HookFiber
          /\ m_tasks' = RemoveAt(m_tasks, i)
    /\ hpc' = "resumed"
    /\ UNCHANGED <<htimer, tinfo_refs, tinfo_cancelled, opc, hret, events, event_ctx, m_epfd, m_pendingEventCount,
                   m_timers, m_tickled, tmCount, m_next, m_ms, m_recurring, tm_cb, hookQuiet>>

\* after yield(): timer->cancel()
HookCancelTimer ==
    /\ hpc = "resumed"
    /\ tm_cb' = [tm_cb EXCEPT ![htimer] = NoCb]
    /\ m_timers' = IF tm_cb[htimer] = NoCb THEN m_timers
                    ELSE m_timers \ {SetFind(m_next, m_timers, htimer)}
    /\ hpc' = "check"
    /\ UNCHANGED <<htimer, tinfo_refs, tinfo_cancelled, opc, hret, events, event_ctx, m_epfd, m_pendingEventCount,
                   m_tickled, tmCount, m_next, m_ms, m_recurring, m_tasks,
                   hookQuiet>>

\* tinfo->cancelled == ETIMEDOUT: return -1 with that errno; else goto retry
HookCheck ==
    /\ hpc = "check"
    /\ IF tinfo_cancelled = ETIMEDOUT
       THEN /\ hpc' = "returned"
            /\ hret' = "timedout"
            /\ tinfo_refs' = tinfo_refs \ {CallRef}
       ELSE /\ hpc' = "retry"
            /\ UNCHANGED <<hret, tinfo_refs>>
    /\ UNCHANGED <<htimer, tinfo_cancelled, opc, events, event_ctx, m_epfd, m_pendingEventCount, m_timers, m_tickled, tmCount, m_next, m_ms, m_recurring, tm_cb,
                   m_tasks, hookQuiet>>

\* idle(): listExpiredCb(cbs) and scheduleLock(cb) for each: the OnTimer
\* call of every collected condition timer is queued
HookCollect ==
    /\ LET r == ListExpiredCb(m_timers, m_next, tm_cb, now, m_previouseTime)
       IN  /\ r.cbs # <<>>
           /\ m_timers' = r.timers
           /\ m_next' = r.next
           /\ tm_cb' = r.cb
           /\ opc' = [i \in TimerIds |->
                        IF \E k \in 1..Len(r.cbs) :
                              r.cbs[k][1] = i /\ r.cbs[k][2] = CondCb
                        THEN "queued" ELSE opc[i]]
    /\ m_previouseTime' = now
    /\ UNCHANGED <<hpc, htimer, tinfo_refs, tinfo_cancelled, hret, events, event_ctx, m_epfd, m_pendingEventCount,
                   m_tickled, tmCount, m_ms, m_recurring, m_tasks,
                   ioQuiet, t_fiber, t_thread_fiber, t_scheduler_fiber, m_state, exec, nextTaskId, aborted, ep_events, lastIo,
                   ioPrev, now, frontCalls, collected, lastOp, rst, fdmVars,
                   tblVars, lkVars>>

\* a worker runs the queued callback of timer i: OnTimer's
\* tmp = weak_cond.lock() and its test
HookOnTimer(i) ==
    /\ opc[i] = "queued"
    /\ IF WeakLock(tinfo_refs)
       THEN /\ opc' = [opc EXCEPT ![i] = "locked"]
            /\ tinfo_refs' = tinfo_refs \cup {TmpRef(i)}
       ELSE /\ opc' = [opc EXCEPT ![i] = "done"]
            /\ UNCHANGED tinfo_refs
    /\ UNCHANGED <<hpc, htimer, tinfo_cancelled, hret, events, event_ctx, m_epfd, m_pendingEventCount,
                   m_timers, m_tickled, tmCount, m_next, m_ms, m_recurring, tm_cb, m_tasks, hookQuiet>>

\* OnTimer's cb(): the lambda of do_io.  It returns when cancelled is set;
\* else it stores ETIMEDOUT and calls iom->cancelEvent(fd, event), whose
\* epoll_ctl returns rt; then tmp is released
HookLambda(i, rt) ==
    /\ opc[i] = "locked"
    /\ opc' = [opc EXCEPT ![i] = "done"]
    /\ tinfo_refs' = tinfo_refs \ {TmpRef(i)}
    /\ IF tinfo_cancelled # 0
       THEN UNCHANGED <<tinfo_cancelled, events, event_ctx, m_epfd, m_pendingEventCount, m_tasks, nextTaskId,
                       aborted>>
       ELSE /\ tinfo_cancelled' = ETIMEDOUT
            /\ IF HookEvent \notin events[HookFd] \/ rt # 0
               THEN UNCHANGED <<events, event_ctx, m_epfd, m_pendingEventCount, m_tasks, nextTaskId, aborted>>
               ELSE /\ m_epfd' = [m_epfd EXCEPT ![HookFd] =
                                     events[HookFd] \ {HookEvent}]
                    /\ WriteFdState(HookFd,
                          TriggerEvent([FdState(HookFd) EXCEPT
                                           !.count = m_pendingEventCount - 1],
                                       HookEvent))
    /\ UNCHANGED <<hpc, htimer, hret, m_timers, m_tickled, tmCount, m_next, m_ms, m_recurring, tm_cb, ioQuiet, t_fiber, t_thread_fiber, t_scheduler_fiber, m_state, exec,
                   ep_events, lastIo, ioPrev, now, m_previouseTime,
                   frontCalls, collected, lastOp, rst, fdmVars,
                   tblVars, lkVars>>

\* two workers: the call's fiber runs on one while the other runs idle() and
\* the timer callbacks
InitHook == Init /\ ~m_useCaller /\ m_threadCount = MaxThreads

NextHook ==
    \/ HookEnter
    \/ \E eagain \in BOOLEAN : HookRawCall(eagain)
    \/ \E ms \in 1..MaxMs : HookAddTimer(ms)
    \/ \E rt \in {0, -1} : HookAddEvent(rt)
    \/ HookYield
    \/ HookResume
    \/ HookCancelTimer
    \/ HookCheck
    \/ HookCollect
    \/ \E i \in TimerIds : HookOnTimer(i)
    \/ \E i \in TimerIds, rt \in {0, -1} : HookLambda(i, rt)
    \/ \E d \in (1..MaxIdlers) : IoEpollWait(d)
    \/ \E d \in (1..MaxIdlers), rt2 \in {0, -1} : IoProcess(d, rt2)
    \/ TmTick

SpecHook == InitHook /\ [][NextHook]_vars

(***************************************************************************)
(* The fd manager and the hooked calls that consult it: FdManager::get and *)
(* del, set_hook_enable, the entry of do_io, fcntl(F_SETFL / F_GETFL),     *)
(* ioctl(FIONBIO) and close, called from any thread, beside addEvent.      *)
(* FdManager::get is two critical sections (read lock, then write lock),   *)
(* close is four steps; the others are one step each.                      *)
(***************************************************************************)
\* S_ISSOCK(statbuf.st_mode) in FdCtx::init: fd HookFd is a socket, the
\* other fds are regular files
IsSocket(fd) == fd = 0

\* bool as the int a flag word carries
Flag(b) == IF b THEN 1 ELSE 0

\* what no fd-manager step changes
fdmQuiet == <<timerVars, ioQuiet, t_fiber, t_thread_fiber, t_scheduler_fiber, m_state, exec, ep_events, ioPrev>>


\* sylar::set_hook_enable(flag) on thread t
FdmSetHookEnable(t, flag) ==
    /\ Alive
    /\ ~InFdCall(t)
    /\ t_hook_enable[t] # flag
    /\ t_hook_enable' = [t_hook_enable EXCEPT ![t] = flag]
    /\ lastFdm' = <<"hook", t, Flag(flag), 0>>
    /\ UNCHANGED <<m_datas, fdctx, ctxCount, gpc, o_nonblock, kpc, events, event_ctx, m_epfd, m_pendingEventCount, m_tasks, nextTaskId, aborted, lastIo,
                   hookVars, tblVars, lkVars, fdmQuiet>>

\* FdManager::get(fd, auto_create) on thread t, under the read lock: the
\* slot is returned, or the lock is released to create the context
FdmGetCheck(t, fd, auto_create) ==
    /\ Alive
    /\ ~InFdCall(t)
    /\ IF m_datas[fd] # NoCtx \/ ~auto_create
       THEN /\ lastFdm' = <<"get", fd, Flag(auto_create), m_datas[fd]>>
            /\ UNCHANGED gpc
       ELSE /\ ctxCount + Cardinality({u \in IoCallers : gpc[u] # NoGet}) < MaxCtx
            /\ gpc' = [gpc EXCEPT ![t] = <<"create", fd>>]
            /\ lastFdm' = <<"unlock", fd, Flag(auto_create), NoCtx>>
    /\ UNCHANGED <<m_datas, fdctx, ctxCount, o_nonblock, t_hook_enable, kpc,
                   events, event_ctx, m_epfd, m_pendingEventCount, m_tasks, nextTaskId, aborted, lastIo, hookVars, tblVars, lkVars, fdmQuiet>>

\* FdManager::get on thread t, under the write lock: the FdCtx is made
\* (FdCtx::init sets O_NONBLOCK on a socket) and stored
FdmGetCreate(t) ==
    /\ Alive
    /\ gpc[t] # NoGet
    /\ LET fd == gpc[t][2]
           id == ctxCount + 1
           \* m_datas[fd] = std::make_shared<FdCtx>(fd): the slot's new value
           slot == id
       IN  /\ ctxCount' = id
           /\ fdctx' = [fdctx EXCEPT ![id] =
                           [NewCtx EXCEPT !.isSocket = IsSocket(fd),
                                          !.sysNonblock = IsSocket(fd)]]
           /\ o_nonblock' = [o_nonblock EXCEPT ![fd] = @ \/ IsSocket(fd)]
           /\ m_datas' = [m_datas EXCEPT ![fd] = slot]
           /\ lastFdm' = <<"get", fd, 1, slot>>
    /\ gpc' = [gpc EXCEPT ![t] = NoGet]
    /\ UNCHANGED <<t_hook_enable, kpc, events, event_ctx, m_epfd, m_pendingEventCount, m_tasks, nextTaskId, aborted, lastIo, hookVars, tblVars, lkVars, fdmQuiet>>

\* FdManager::del(fd)
FdmDel(fd) ==
    /\ Alive
    /\ m_datas' = [m_datas EXCEPT ![fd] = NoCtx]
    /\ lastFdm' = <<"del", fd, 0, 0>>
    /\ UNCHANGED <<fdctx, ctxCount, gpc, o_nonblock, t_hook_enable, kpc,
                   events, event_ctx, m_epfd, m_pendingEventCount, m_tasks, nextTaskId, aborted, lastIo, hookVars, tblVars, lkVars, fdmQuiet>>

\* the hooked calls' test !ctx || ctx->isClosed() || !ctx->isSocket()
NotHooked(fd) ==
    \/ m_datas[fd] = NoCtx
    \/ fdctx[m_datas[fd]].isClosed
    \/ ~fdctx[m_datas[fd]].isSocket

\* a faulty variant of GetflResult: the system's flag is reported
GetflResultSys(arg, user) == arg

\* fcntl(F_GETFL): O_NONBLOCK in the flags returned for a hooked socket
GetflResult(arg, user) == user

\* fcntl(fd, F_SETFL, arg) with O_NONBLOCK in arg iff nb
FdmSetfl(fd, nb) ==
    /\ Alive
    /\ IF NotHooked(fd)
       THEN /\ o_nonblock' = [o_nonblock EXCEPT ![fd] = nb]
            /\ lastFdm' = <<"setfl", fd, Flag(nb), Flag(nb)>>
            /\ UNCHANGED fdctx
       ELSE LET c == m_datas[fd]
                \* O_NONBLOCK in the flags forwarded to fcntl_f
                fwd == fdctx[c].sysNonblock
            IN  /\ fdctx' = [fdctx EXCEPT ![c].userNonblock = nb]
                /\ o_nonblock' = [o_nonblock EXCEPT ![fd] = fwd]
                /\ lastFdm' = <<"setfl", fd, Flag(nb), Flag(fwd)>>
    /\ UNCHANGED <<m_datas, ctxCount, gpc, t_hook_enable, kpc, events, event_ctx, m_epfd, m_pendingEventCount, m_tasks, nextTaskId, aborted, lastIo,
                   hookVars, tblVars, lkVars, fdmQuiet>>

\* fcntl(fd, F_GETFL): whether the flags returned carry O_NONBLOCK
FdmGetfl(fd) ==
    /\ Alive
    /\ lastFdm' =
          <<"getfl", fd, 0,
            Flag(IF NotHooked(fd) THEN o_nonblock[fd]
                 ELSE GetflResult(o_nonblock[fd],
                                  fdctx[m_datas[fd]].userNonblock))>>
    /\ UNCHANGED <<m_datas, fdctx, ctxCount, gpc, o_nonblock, t_hook_enable,
                   kpc, events, event_ctx, m_epfd, m_pendingEventCount, m_tasks, nextTaskId, aborted, lastIo, hookVars, tblVars, lkVars, fdmQuiet>>

\* ioctl(fd, FIONBIO, &v) with v != 0 iff nb: the user's flag is stored for
\* a hooked socket, and ioctl_f is called with the same argument
FdmFionbio(fd, nb) ==
    /\ Alive
    /\ fdctx' = IF NotHooked(fd) THEN fdctx
                ELSE [fdctx EXCEPT ![m_datas[fd]].userNonblock = nb]
    /\ o_nonblock' = [o_nonblock EXCEPT ![fd] = nb]
    /\ lastFdm' = <<"fionbio", fd, Flag(nb), 0>>
    /\ UNCHANGED <<m_datas, ctxCount, gpc, t_hook_enable, kpc, events, event_ctx, m_epfd, m_pendingEventCount, m_tasks, nextTaskId, aborted, lastIo,
                   hookVars, tblVars, lkVars, fdmQuiet>>

\* a faulty variant of DoIoPath: user_nonblock is not looked at
DoIoPathNoOptOut(hook, c, ctx) ==
    IF ~hook \/ c = NoCtx THEN "raw"
    ELSE IF ctx.isClosed THEN "ebadf"
    ELSE IF ~ctx.isSocket THEN "raw"
    ELSE "runtime"

\* do_io up to its timeout read: the raw call alone, EBADF, or the
\* runtime's path; c is what FdMgr::get(fd) returns and ctx its fields
DoIoPath(hook, c, ctx) ==
    IF ~hook THEN "raw"
    ELSE IF c = NoCtx THEN "raw"
    ELSE IF ctx.isClosed THEN "ebadf"
    ELSE IF ~ctx.isSocket \/ ctx.userNonblock THEN "raw"
    ELSE "runtime"

\* a hooked read/write-family call on thread t enters do_io: it makes the
\* raw call and returns its result, fails with EBADF, or goes on to retry:
\* with its timer_info made
FdmDoIo(t, fd) ==
    /\ Alive
    /\ ~InFdCall(t)
    /\ LET c == m_datas[fd]
           path == DoIoPath(t_hook_enable[t], c,
                            IF c = NoCtx THEN NewCtx ELSE fdctx[c])
       IN  /\ lastFdm' = <<path, fd, t, 0>>
           /\ IF path = "runtime"
              THEN /\ fd = HookFd
                   /\ hpc = "off"
                   /\ hpc' = "retry"
                   /\ tinfo_refs' = {CallRef}
              ELSE UNCHANGED <<hpc, tinfo_refs>>
    /\ UNCHANGED <<htimer, tinfo_cancelled, opc, hret, m_datas, fdctx,
                   ctxCount, gpc, o_nonblock, t_hook_enable, kpc, events, event_ctx, m_epfd, m_pendingEventCount, m_tasks, nextTaskId, aborted, lastIo,
                   fdmQuiet, tblVars, lkVars>>

\* hooked close(fd) on thread t, up to its test of ctx
FdmCloseBegin(t, fd) ==
    /\ Alive
    /\ kpc = NoClose
    /\ ~InFdCall(t)
    /\ LET c == IF t_hook_enable[t] THEN m_datas[fd] ELSE NoCtx
       IN  kpc' = [pc |-> IF c # NoCtx THEN "cancel" ELSE "raw", t |-> t,
                   fd |-> fd, ctx |-> c, cancelAll |-> "none"]
    /\ lastFdm' = <<"close_begin", fd, t, 0>>
    /\ UNCHANGED <<m_datas, fdctx, ctxCount, gpc, o_nonblock, t_hook_enable,
                   events, event_ctx, m_epfd, m_pendingEventCount, m_tasks, nextTaskId, aborted, lastIo, hookVars, tblVars, lkVars, fdmQuiet>>

\* close: auto iom = IOManager::GetThis(); if(iom) iom->cancelAll(fd)
FdmCloseCancelAll(rt) ==
    /\ Alive
    /\ kpc.pc = "cancel"
    /\ IF t_scheduler[kpc.t]
       THEN /\ CancelAll(kpc.fd, rt)
            /\ kpc' = [kpc EXCEPT !.pc = "del",
                          !.cancelAll = IF events[kpc.fd] # {} /\ rt # 0
                                        THEN "failed" ELSE "done"]
       ELSE /\ kpc' = [kpc EXCEPT !.pc = "del", !.cancelAll = "skipped"]
            /\ UNCHANGED <<events, event_ctx, m_epfd, m_pendingEventCount, m_tasks, nextTaskId, aborted, lastIo>>
    /\ lastFdm' = <<"close_cancel", kpc.fd, kpc.t, 0>>
    /\ UNCHANGED <<m_datas, fdctx, ctxCount, gpc, o_nonblock, t_hook_enable,
                   hookVars, tblVars, lkVars, fdmQuiet>>

\* close: FdMgr::GetInstance()->del(fd)
FdmCloseDel ==
    /\ Alive
    /\ kpc.pc = "del"
    /\ m_datas' = [m_datas EXCEPT ![kpc.fd] = NoCtx]
    /\ kpc' = [kpc EXCEPT !.pc = "raw"]
    /\ lastFdm' = <<"close_del", kpc.fd, kpc.t, 0>>
    /\ UNCHANGED <<fdctx, ctxCount, gpc, o_nonblock, t_hook_enable,
                   events, event_ctx, m_epfd, m_pendingEventCount, m_tasks, nextTaskId, aborted, lastIo, hookVars, tblVars, lkVars, fdmQuiet>>

\* close: return close_f(fd).  The kernel takes a closed fd out of the
\* epoll instance's interest list
FdmCloseRaw ==
    /\ Alive
    /\ kpc.pc = "raw"
    /\ m_epfd' = [m_epfd EXCEPT ![kpc.fd] = {}]
    /\ o_nonblock' = [o_nonblock EXCEPT ![kpc.fd] = FALSE]
    /\ kpc' = NoClose
    /\ lastFdm' = <<"close", kpc.fd, kpc.t, 0>>
    /\ UNCHANGED <<m_datas, fdctx, ctxCount, gpc, t_hook_enable, events,
                   event_ctx, m_pendingEventCount, m_tasks, nextTaskId,
                   aborted, lastIo, hookVars, tblVars, lkVars, fdmQuiet>>


\* the fd manager, the hook switch and the calls that only read or write
\* an fd's context
NextFdm ==
    \/ \E t \in IoCallers, flag \in BOOLEAN : FdmSetHookEnable(t, flag)
    \/ \E t \in IoCallers, fd \in Fds, auto_create \in BOOLEAN :
          FdmGetCheck(t, fd, auto_create)
    \/ \E t \in IoCallers : FdmGetCreate(t)
    \/ \E fd \in Fds : FdmDel(fd)
    \/ \E fd \in Fds, nb \in BOOLEAN : FdmSetfl(fd, nb)
    \/ \E fd \in Fds : FdmGetfl(fd)
    \/ \E fd \in Fds, nb \in BOOLEAN : FdmFionbio(fd, nb)
    \/ \E t \in IoCallers, fd \in Fds : FdmDoIo(t, fd)

SpecFdm == InitIo /\ [][NextFdm]_vars

\* hooked close of the socket beside the registration of its events and
\* the creation of its context
NextClose ==
    \/ \E t \in IoCallers : FdmSetHookEnable(t, TRUE)
    \/ \E t \in IoCallers : FdmGetCheck(t, HookFd, TRUE)
    \/ \E t \in IoCallers : FdmGetCreate(t)
    \/ \E t \in IoCallers : FdmCloseBegin(t, HookFd)
    \/ \E rt \in {0, -1} : FdmCloseCancelAll(rt)
    \/ FdmCloseDel
    \/ FdmCloseRaw
    \/ \E t \in IoCallers, event \in Events, cb \in {NoCb, UserCb} :
          IoAddEvent(t, HookFd, event, cb, 0)

SpecClose == InitIo /\ [][NextClose]_vars

(***************************************************************************)
(* IOManager::addEvent on fds inside and outside the table, by several     *)
(* threads: the lookup under the read lock, the resize under the write     *)
(* lock, the registration under the fd's mutex.  Each locked section is    *)
(* one step.                                                               *)
(***************************************************************************)
\* the read-locked section: fd_ctx = m_fdContexts[fd] when the table has the
\* index, otherwise the lock is dropped and the write lock is asked for
AddEventLookup(t, fd) ==
    /\ Alive
    /\ aepc[t].pc = "off"
    /\ IF Len(m_fdContexts) > fd
       THEN aepc' = [aepc EXCEPT ![t] =
                       [pc |-> "locked", fd |-> fd,
                        ctx |-> <<fd, m_fdContexts[fd + 1]>>]]
       ELSE /\ fdCtxMade < MaxResize
            /\ aepc' = [aepc EXCEPT ![t] =
                          [pc |-> "resize", fd |-> fd, ctx |-> <<0, 0>>]]
    /\ UNCHANGED <<timerVars, schedVars, fdVars, hookVars, fdmVars, lkVars,
                   m_fdContexts, fdCtxMade, fdCtxEvents>>

\* the write-locked section: contextResize(fd * 1.5); fd_ctx = m_fdContexts[fd]
AddEventResize(t) ==
    /\ Alive
    /\ aepc[t].pc = "resize"
    /\ LET fd == aepc[t].fd
           v == ContextResize(m_fdContexts, (fd * 3) \div 2, fdCtxMade + 1)
       IN  /\ m_fdContexts' = v
           /\ fdCtxMade' = fdCtxMade + 1
           /\ aepc' = [aepc EXCEPT ![t] =
                         [pc |-> "locked", fd |-> fd, ctx |-> <<fd, v[fd + 1]>>]]
    /\ UNCHANGED <<timerVars, schedVars, fdVars, hookVars, fdmVars, lkVars, fdCtxEvents>>

\* the section under fd_ctx->mutex: the event is set in fd_ctx->events
\* (or found there already) and addEvent returns
AddEventRegister(t) ==
    /\ Alive
    /\ aepc[t].pc = "locked"
    /\ fdCtxEvents' = fdCtxEvents \cup {aepc[t].ctx}
    /\ aepc' = [aepc EXCEPT ![t] = [pc |-> "off", fd |-> 0, ctx |-> <<0, 0>>]]
    /\ UNCHANGED <<timerVars, schedVars, fdVars, hookVars, fdmVars, lkVars,
                   m_fdContexts, fdCtxMade>>

\* addEvent on a fd inside the constructor's table and on two beyond it
NextResize ==
    \/ \E t \in IoCallers, fd \in {8, 40, 100} : AddEventLookup(t, fd)
    \/ \E t \in IoCallers : AddEventResize(t)
    \/ \E t \in IoCallers : AddEventRegister(t)

SpecResize == Init /\ [][NextResize]_vars

(***************************************************************************)
(* The locks of the runtime.  A call is the sequence of its lock steps, in *)
(* the order the code takes them: <<"lock", l>> and <<"unlock", l>> for a  *)
(* std::mutex or the write side of a std::shared_mutex, "lock_shared" and  *)
(* "unlock_shared" for the read side, "create" / "wait" / "signal" /       *)
(* "join" for a thread and its semaphore, "life" for a thread's progress.  *)
(* Thread 0 is the application thread, 1..MaxThreads are the workers.      *)
(* Lock <<"fiber", 0>> is the mutex of a user fiber; the mutex of the      *)
(* fiber run() makes around a callback is known to its thread alone and is *)
(* left out.  The calls are made on one fd.                                *)
(***************************************************************************)
\* Timer::cancel, Timer::refresh, TimerManager::addTimer and listExpiredCb
\* ("write"), Timer::reset ("reset": its own block, then addTimer),
\* getNextTimer and hasTimer ("read")
TimerSteps(op) ==
    CASE op = "write" -> << <<"lock", <<"timer", 0>>>>, <<"unlock", <<"timer", 0>>>> >>
      [] op = "reset" -> << <<"lock", <<"timer", 0>>>>, <<"unlock", <<"timer", 0>>>>,
                            <<"lock", <<"timer", 0>>>>, <<"unlock", <<"timer", 0>>>> >>
      [] op = "read"  -> << <<"lock_shared", <<"timer", 0>>>>,
                            <<"unlock_shared", <<"timer", 0>>>> >>

\* scheduleLock, Scheduler::stopping and run()'s scan ("queue": m_mutex taken
\* and released); run()'s resume of a task under the fiber's mutex ("task",
\* around the steps inner of the fiber's code); start() ("start": every
\* thread made and waited for under m_mutex); stop() up to the resume of
\* the scheduler fiber ("stop": stopping(), m_stopping) and after it
\* ("join": the swap under m_mutex, the joins outside it)
SchedulerSteps(op, f, inner) ==
    LET queue == << <<"lock", <<"sched", 0>>>>, <<"unlock", <<"sched", 0>>>> >>
        RECURSIVE Each(_, _)
        Each(kinds, w) ==
            IF w > MaxThreads THEN <<>>
            ELSE [i \in 1..Len(kinds) |-> <<kinds[i], w>>] \o Each(kinds, w + 1)
    IN  CASE op = "queue" -> queue
          [] op = "task"  -> queue \o << <<"lock", <<"fiber", f>>>> >> \o inner
                                   \o << <<"unlock", <<"fiber", f>>>> >>
          [] op = "start" -> << <<"lock", <<"sched", 0>>>> >>
                                \o Each(<<"create", "wait">>, 1)
                                \o << <<"unlock", <<"sched", 0>>>>, <<"life", "init">> >>
          [] op = "stop"  -> queue \o << <<"life", "stopping">> >>
          [] op = "join"  -> queue \o Each(<<"join">>, 1)
                                   \o << <<"life", "exited">> >>

\* a faulty variant of ReactorSteps: addEvent keeps the read lock when it
\* asks for the write lock
ReactorStepsNoUnlock(op, fd) ==
    LET table == << <<"lock_shared", <<"table", 0>>>>,
                    <<"unlock_shared", <<"table", 0>>>> >>
        queue == SchedulerSteps("queue", 0, <<>>)
        trigger == << <<"lock", <<"fd", fd>>>> >> \o queue
                       \o << <<"unlock", <<"fd", fd>>>> >>
    IN  CASE op = "add"    -> table \o << <<"lock", <<"fd", fd>>>>,
                                          <<"unlock", <<"fd", fd>>>> >>
          [] op = "resize" -> << <<"lock_shared", <<"table", 0>>>>,
                                 <<"lock", <<"table", 0>>>>,
                                 <<"unlock", <<"table", 0>>>>,
                                 <<"unlock_shared", <<"table", 0>>>>,
                                 <<"lock", <<"fd", fd>>>>,
                                 <<"unlock", <<"fd", fd>>>> >>
          [] op = "cancel" -> table \o trigger
          [] op = "idle"   -> TimerSteps("read") \o queue \o TimerSteps("read")
                                  \o TimerSteps("write") \o queue \o trigger

\* addEvent and delEvent on a fd the table holds ("add": the table's read
\* lock, then the fd's mutex), addEvent on a fd beyond the table ("resize":
\* read lock, write lock, fd mutex), cancelEvent and cancelAll ("cancel":
\* triggerEvent calls scheduleLock under the fd's mutex), one round of
\* idle() ("idle": stopping(), getNextTimer, listExpiredCb, scheduleLock of
\* a callback, one ready entry triggered under its fd's mutex)
ReactorSteps(op, fd) ==
    LET table == << <<"lock_shared", <<"table", 0>>>>,
                    <<"unlock_shared", <<"table", 0>>>> >>
        queue == SchedulerSteps("queue", 0, <<>>)
        trigger == << <<"lock", <<"fd", fd>>>> >> \o queue
                       \o << <<"unlock", <<"fd", fd>>>> >>
    IN  CASE op = "add"    -> table \o << <<"lock", <<"fd", fd>>>>,
                                          <<"unlock", <<"fd", fd>>>> >>
          [] op = "resize" -> table \o << <<"lock", <<"table", 0>>>>,
                                          <<"unlock", <<"table", 0>>>>,
                                          <<"lock", <<"fd", fd>>>>,
                                          <<"unlock", <<"fd", fd>>>> >>
          [] op = "cancel" -> table \o trigger
          [] op = "idle"   -> TimerSteps("read") \o queue \o TimerSteps("read")
                                  \o TimerSteps("write") \o queue \o trigger

\* the calls thread t may begin: what a fiber's code or the application
\* calls; on a dispatcher, one round of run() with a fiber task, a callback
\* task or the idle fiber; on the application thread, start() and stop(),
\* and inside stop() the rounds of run() its scheduler fiber makes
LkCalls(t) ==
    LET user == {SchedulerSteps("queue", 0, <<>>)}
                  \cup {TimerSteps(op) : op \in {"write", "reset", "read"}}
                  \cup {ReactorSteps(op, HookFd) :
                           op \in {"add", "resize", "cancel"}}
        round == {SchedulerSteps("task", 0, inner) : inner \in user}
                   \cup {SchedulerSteps("queue", 0, <<>>)
                             \o ReactorSteps("idle", HookFd)}
    IN  IF t = RootTid
        THEN CASE lkThr[t] = "none" -> user \cup {SchedulerSteps("start", 0, <<>>)}
               [] lkThr[t] = "init" -> user \cup {SchedulerSteps("stop", 0, <<>>)}
               [] lkThr[t] = "stopping" ->
                      round \cup {SchedulerSteps("join", 0, <<>>)}
               [] OTHER -> {}
        ELSE IF lkThr[t] = "init" THEN round ELSE {}

\* thread t can take the step: a mutex or write lock is free, a read lock
\* has no writer, the semaphore was signalled, the thread joined has ended
LkCanTake(t, step) ==
    CASE step[1] = "lock" -> lkHeld[step[2]] = {}
      [] step[1] = "lock_shared" -> \A h \in lkHeld[step[2]] : h[2] # "x"
      [] step[1] = "wait" -> lkThr[step[2]] \in {"init", "exited"}
      [] step[1] = "join" -> lkThr[step[2]] = "exited"
      [] OTHER -> TRUE

\* thread t enters a call
LkBegin(t) ==
    /\ lkSteps[t] = <<>>
    /\ \E call \in LkCalls(t) : lkSteps' = [lkSteps EXCEPT ![t] = call]
    /\ UNCHANGED <<timerVars, schedVars, fdVars, hookVars, fdmVars, tblVars,
                   lkHeld, lkThr>>

\* a worker leaves run() after stop() has set m_stopping
LkExit(t) ==
    /\ t # RootTid
    /\ lkSteps[t] = <<>>
    /\ lkThr[t] = "init"
    /\ lkThr[RootTid] = "stopping"
    /\ lkThr' = [lkThr EXCEPT ![t] = "exited"]
    /\ UNCHANGED <<timerVars, schedVars, fdVars, hookVars, fdmVars, tblVars,
                   lkSteps, lkHeld>>

\* thread t takes the next step of its call
LkStep(t) ==
    /\ lkSteps[t] # <<>>
    /\ LET step == Head(lkSteps[t])
           kind == step[1]
           mode == IF kind \in {"lock", "unlock"} THEN "x" ELSE "s"
       IN  /\ LkCanTake(t, step)
           /\ lkHeld' =
                 IF kind \in {"lock", "lock_shared"}
                 THEN [lkHeld EXCEPT ![step[2]] = @ \cup {<<t, mode>>}]
                 ELSE IF kind \in {"unlock", "unlock_shared"}
                 THEN [lkHeld EXCEPT ![step[2]] = @ \ {<<t, mode>>}]
                 ELSE lkHeld
           /\ lkThr' =
                 IF kind = "create" THEN [lkThr EXCEPT ![step[2]] = "made"]
                 ELSE IF kind = "signal" THEN [lkThr EXCEPT ![t] = "init"]
                 ELSE IF kind = "life" THEN [lkThr EXCEPT ![t] = step[2]]
                 ELSE lkThr
           /\ lkSteps' =
                 IF kind = "create"
                 THEN [lkSteps EXCEPT ![t] = Tail(@),
                                      ![step[2]] = << <<"signal", step[2]>> >>]
                 ELSE [lkSteps EXCEPT ![t] = Tail(@)]
    /\ UNCHANGED <<timerVars, schedVars, fdVars, hookVars, fdmVars, tblVars>>

NextLock ==
    \E t \in Dispatchers : LkBegin(t) \/ LkExit(t) \/ LkStep(t)

\* the lock steps read no member of the configuration
SpecLock == InitHook /\ [][NextLock]_vars

(***************************************************************************)
(* Properties of the fiber primitive.                                      *)
(***************************************************************************)
C1_Leaves(f) == \A t \in Threads : exec[t] = f => exec'[t] # f

C1_Step(f) ==
    /\ m_state'[f] # m_state[f] =>
          \* construction of the object (a child fiber may be resumed at once)
          \/ m_state[f] = "NONE"
          \* destruction of a finished fiber
          \/ m_state[f] = "TERM" /\ m_state'[f] = "NONE"
          \* resume
          \/ m_state[f] = "READY" /\ m_state'[f] = "RUNNING"
          \* yield
          \/ /\ m_state[f] = "RUNNING" /\ m_state'[f] = "READY"
             /\ m_cb'[f] = m_cb[f]
             /\ C1_Leaves(f)
          \* the entry returns
          \/ /\ m_state[f] = "RUNNING" /\ m_state'[f] = "TERM"
             /\ ~m_cb'[f]
             /\ C1_Leaves(f)
          \* reset
          \/ m_state[f] = "TERM" /\ m_state'[f] = "READY" /\ m_cb'[f]
    /\ (m_cb[f] /\ ~m_cb'[f]) => m_state'[f] = "TERM"
    /\ (m_state[f] = "TERM" /\ m_state'[f] = "TERM") => m_cb'[f] = m_cb[f]

\* C1: a fiber's state changes only by resume (READY to RUNNING), by yield
\* (RUNNING to READY, the callback kept; TERM is left as it is), by the return
\* of the entry (the callback is cleared, the state becomes TERM and control
\* leaves the fiber) and by reset (TERM to READY with a callback); apart from
\* the construction and destruction of the object no other change occurs.
C1_Transitions == [][\A f \in Fibers : C1_Step(f)]_vars

\* a fiber has run to TERM with its callback cleared while another, resumed
\* and then yielded in its sleep, is READY with its wake-up timer pending
C1_Witness ==
    \E f, g \in UserFibers :
        /\ m_state[f] = "TERM" /\ ~m_cb[f]
        /\ m_state[g] = "READY" /\ m_cb[g]
        /\ \E i \in m_timers : tm_cb[i] = WakeCb(g)

\* C2: on every thread the current-fiber thread-local pointer is the fiber
\* executing on that thread, after every resume and yield of the dispatch
\* loop, the idle fiber and stop().
C2_CurrentFiber == \A t \in Threads : t_fiber[t] = exec[t]

\* inside stop() on the adopting thread, where the scheduler fiber is not the
\* main fiber: a task fiber executes after another has made its final yield
C2_Witness ==
    /\ m_useCaller
    /\ exec[RootTid] \in UserFibers
    /\ t_fiber[RootTid] = exec[RootTid]
    /\ t_scheduler_fiber[RootTid] # t_thread_fiber[RootTid]
    /\ \E f \in UserFibers : m_state[f] = "TERM"

(***************************************************************************)
(* Properties of the dispatch loop.                                        *)
(***************************************************************************)
\* C3: a fiber never executes on two threads at once; the fiber that is
\* RUNNING is executed by the thread that holds its mutex; no resume of the
\* dispatch loop finds a fiber that is not READY (the assertion of resume()
\* never fails).
C3_SingleOwner ==
    /\ aborted # "resume_assert"
    /\ \A f \in UserFibers :
          /\ Cardinality({t \in Threads : exec[t] = f}) <= 1
          /\ m_state[f] = "RUNNING" =>
                \E d \in Dispatchers : exec[d] = f /\ m_mutex[f] = d

\* a worker has dequeued a fiber that is still RUNNING on another worker and
\* waits on the fiber's mutex
C3_Witness ==
    \E d \in Dispatchers :
        /\ pc[d] = "fiber"
        /\ m_state[task[d].fiber] = "RUNNING"
        /\ m_mutex[task[d].fiber] \notin {NoThread, d}

C4_MayRun(t, d) == t.thread = AnyThread \/ t.thread = d

C4_Take(d) ==
    (task[d] = NoTask /\ task'[d] # NoTask) =>
        \E i \in 1..Len(m_tasks) :
            /\ task'[d] = m_tasks[i]
            /\ C4_MayRun(m_tasks[i], d)
            /\ \A j \in 1..(i - 1) : ~C4_MayRun(m_tasks[j], d)
            /\ Len(m_tasks') = Len(m_tasks) - 1
            /\ \A k \in 1..Len(m_tasks') :
                  m_tasks'[k] = IF k < i THEN m_tasks[k] ELSE m_tasks[k + 1]

\* C4: a worker that takes a task takes the earliest-enqueued task whose
\* thread is -1 or its own id and leaves the rest of the queue in order; a
\* task pinned to a thread is never held by another worker.
C4_FifoPinned ==
    [][\A d \in Dispatchers :
          /\ C4_Take(d)
          /\ task'[d] # NoTask => C4_MayRun(task'[d], d)]_vars

\* a worker holds a task pinned to it, taken from behind an earlier task
\* that is pinned to another thread and still queued
C4_Witness ==
    \E d \in Dispatchers :
        /\ task[d] # NoTask
        /\ task[d].thread = d
        /\ m_tasks # <<>>
        /\ m_tasks[1].id < task[d].id
        /\ ~C4_MayRun(m_tasks[1], d)

C5_Queued(id) == Cardinality({i \in 1..Len(m_tasks) : m_tasks[i].id = id})

C5_Holders(id) == {d \in Dispatchers : task[d].id = id}

\* C5: every task pushed is either in the queue once or was erased by one
\* worker once, never both and never twice; an erased task is held by one
\* worker until it is run, and is run at most once; a callback task runs in
\* a fiber of its own.
C5_NoTaskDropped ==
    /\ \A id \in TaskIds :
          IF id < nextTaskId
          THEN /\ C5_Queued(id) + removed[id] = 1
               /\ runs[id] <= removed[id]
               /\ Cardinality(C5_Holders(id)) <= 1
               /\ (removed[id] = 1 /\ runs[id] = 0) =>
                     \E d \in Dispatchers :
                         task[d].id = id /\ pc[d] \in {"fiber", "cb"}
          ELSE C5_Queued(id) = 0 /\ removed[id] = 0 /\ runs[id] = 0
    /\ \A d \in Dispatchers :
          (pc[d] = "inTask" /\ task[d].fiber = NoFiber) =>
              /\ runs[task[d].id] = 1
              /\ m_state[CbFiber(d)] \in {"RUNNING", "TERM"}

\* the application's tasks, a timer's callback and the fiber it wakes have
\* all been erased and run
C5_Witness ==
    /\ nextTaskId > MaxPush + 2
    /\ \A id \in 1..(nextTaskId - 1) : removed[id] = 1 /\ runs[id] = 1
    /\ \A d \in Dispatchers : task[d] = NoTask

C6_Quiescent ==
    /\ m_stopping
    /\ m_tasks = <<>>
    /\ m_activeThreadCount = 0
    /\ m_pendingEventCount = 0
    /\ m_timers = {}

\* C6: at the step in which stop() returns, and at the step in which any
\* worker leaves its dispatch loop, the stopping flag is set, the queue is
\* empty, no worker is running a task, no event is pending and no timer
\* remains.
C6_StopAfterAllTasks ==
    [][/\ (cpc # "stopped" /\ cpc' = "stopped") => C6_Quiescent
       /\ \A d \in Dispatchers :
             (pc[d] # "exited" /\ pc'[d] = "exited") => C6_Quiescent]_vars

\* the part of C6 about the return of stop() alone; the code does not have
\* it either (a worker whose idle fiber has ended still runs the fiber a
\* timer wakes, and that fiber can sleep again)
C6_AtReturn == cpc = "stopped" => C6_Quiescent

\* C7: once stop() has set the stopping flag it returns; stated on finite
\* runs: while stop() has not returned the program can still take a step.
C7_StopReturns == (m_stopping /\ cpc # "stopped") => ENABLED Next

\* C8: the assertion at the head of stop() holds for a call from the
\* adopting thread when use_caller, and from any thread that is not a
\* worker, the constructing thread included, when not.
C8_StopAssertHolds == aborted # "stop_assert"

(***************************************************************************)
(* Properties of the timer set.                                            *)
(***************************************************************************)
\* C10: every timer given to addTimer is a member of the set until it has
\* fired or been cancelled, equal deadlines included; after listExpiredCb no
\* timer that is due is left with its callback uncollected.
C10_AllMembers ==
    /\ \A i \in 1..tmCount : tm_cb[i] # NoCb => i \in m_timers
    /\ lastOp[1] = "list" =>
          \A i \in 1..tmCount :
              (tm_cb[i] # NoCb /\ ~m_recurring[i]) => m_next[i] > now

\* C11: in every state other threads can observe (no step of the model is
\* inside a block that holds the write lock), a timer is a member of the set
\* exactly when its callback is non-null, whatever the interleaving of
\* addTimer, cancel, refresh, reset and listExpiredCb.
C11_MemberIffCallback ==
    \A i \in 1..tmCount : (i \in m_timers) <=> (tm_cb[i] # NoCb)

\* one half of C11, which a cancel between the erase and the reinsertion of
\* a reset breaks on its own: no member of the set has a null callback
C11_NoNullMember == \A i \in m_timers : tm_cb[i] # NoCb

\* C12: cancel on a timer whose callback is set returns true, takes the timer
\* out of the set and clears its callback; cancel on a timer whose callback
\* is null returns false and changes nothing; and once a timer's callback is
\* null no listExpiredCb call collects that timer again.
C12_CancelIdempotent ==
    [][\A i \in 1..tmCount :
          /\ (TmCancel(i) /\ tm_cb[i] # NoCb) =>
                 /\ lastOp' = <<"cancel", i, TRUE>>
                 /\ i \notin m_timers'
                 /\ tm_cb'[i] = NoCb
          /\ (TmCancel(i) /\ tm_cb[i] = NoCb) =>
                 /\ lastOp' = <<"cancel", i, FALSE>>
                 /\ UNCHANGED <<m_timers, m_tickled, tmCount, m_next, m_ms, m_recurring, tm_cb>>
          /\ tm_cb[i] = NoCb => collected'[i] = collected[i]]_vars

C14_RecurringRearmed ==
    [][TmListExpired =>
          \A i \in 1..tmCount :
              (i \in m_timers /\ m_recurring[i] /\ m_next[i] <= now) =>
                  /\ collected'[i] = collected[i] + 1
                  /\ m_next'[i] = now + m_ms[i]
                  /\ i \in m_timers']_vars

\* C16: when reset(ms, from_now = true) on a timer that was a member with a
\* callback completes, the timer is a member of the set, getNextTimer called
\* next returns a value in 0..ms, and onTimerInsertedAtFront was called by
\* the reinsertion exactly when the timer is the earliest of the set and
\* m_tickled was false.
C16_ResetFromNow ==
    [][\A i \in 1..tmCount :
          (TmResetInsert(i) /\ rst[i][3] /\ tm_cb[i] # NoCb) =>
              /\ i \in m_timers'
              /\ GetNextTimer(m_timers', m_next', now) \in 0..rst[i][2]
              /\ (frontCalls' = frontCalls + 1) <=>
                     (SetBegin(m_next', m_timers') = i /\ ~m_tickled)]_vars

(***************************************************************************)
(* Properties of the reactor's fd contexts.                                *)
(***************************************************************************)
\* C17: addEvent(fd, event) on an fd whose mask already contains the event
\* returns -1 and leaves the mask, both slots, the pending-event count and
\* the epoll registration as they were.
C17_DuplicateAddFails ==
    [][\A t \in IoCallers, fd \in Fds, event \in Events,
          cb \in {NoCb, UserCb}, rt \in {0, -1} :
          (IoAddEvent(t, fd, event, cb, rt) /\ event \in events[fd]) =>
              /\ lastIo' = <<"add", fd, event, -1>>
              /\ UNCHANGED <<events, event_ctx, m_pendingEventCount, m_epfd>>
      ]_vars

\* a second addEvent for a registered event has returned -1
C17_Witness ==
    \E fd \in Fds, event \in Events :
        /\ lastIo = <<"add", fd, event, -1>>
        /\ event \in events[fd]
        /\ ioPrev.events = events[fd]
        /\ m_pendingEventCount = 1

\* C18: for every fd and each of READ and WRITE, the bit is set in the mask
\* exactly when the event's slot holds a scheduler and a fiber or a callback,
\* from whichever thread addEvent was called.
C18_BitIffSlot ==
    \A fd \in Fds, event \in Events :
        (event \in events[fd]) <=>
            /\ event_ctx[fd][event].scheduler
            /\ \/ event_ctx[fd][event].fiber # NoFiber
               \/ event_ctx[fd][event].cb # NoCb

\* C19: while the process runs, the pending-event count equals the number
\* of bits set in all masks and is not negative, idle()'s readiness
\* processing included.
C19_PendingCount ==
    Alive => (m_pendingEventCount = BitsUpTo(MaxFd) /\ m_pendingEventCount >= 0)

\* idle() has triggered one of two registered events
C19_Witness ==
    /\ Alive
    /\ lastIo[1] = "process"
    /\ Len(m_tasks) = 1
    /\ m_pendingEventCount = 1
    /\ BitsUpTo(MaxFd) = 1

\* C20: a delEvent(fd, event) whose epoll_ctl succeeds, directly after the
\* addEvent(fd, event) that registered the event, leaves the fd's mask, both
\* slots (the event's slot empty), the pending-event count and the epoll
\* registration as they were before the addEvent.
C20_AddThenDel ==
    [][\A fd \in Fds, event \in Events :
          (IoDelEvent(fd, event, 0) /\ lastIo = <<"add", fd, event, 0>>) =>
              /\ lastIo' = <<"del", fd, event, 1>>
              /\ events'[fd] = ioPrev.events
              /\ event_ctx'[fd] = ioPrev.ctx
              /\ event_ctx'[fd][event] = EmptyCtx
              /\ m_pendingEventCount' = ioPrev.count
              /\ m_epfd'[fd] = ioPrev.epfd]_vars

\* addEvent then delEvent have run on an fd whose other event is registered
C20_Witness ==
    \E fd \in Fds, event \in Events :
        /\ lastIo = <<"del", fd, event, 1>>
        /\ ioPrev.fd = fd /\ ioPrev.event = event
        /\ events[fd] # {}
        /\ events[fd] = ioPrev.events
        /\ event_ctx[fd] = ioPrev.ctx
        /\ m_pendingEventCount = 1

C15_AfterReturn ==
    [][\A i \in TimerIds :
          (HookOnTimer(i) /\ hpc = "returned") => opc'[i] = "done"]_vars

(***************************************************************************)
(* Removing one event: delEvent and cancelEvent.                           *)
(***************************************************************************)
\* C21: a delEvent call never pushes a task, and one that removes a
\* registered event clears its slot; a cancelEvent call that removes a
\* registered event pushes the slot's fiber or callback once, as one task
\* of the slot's scheduler, and clears the slot; in both the other event of
\* the fd keeps its bit and its slot and is what epoll watches the fd for.
C21_OtherKept(fd, event) ==
    \A o \in Events \ {event} :
        /\ (o \in events[fd]) = (o \in events'[fd])
        /\ event_ctx'[fd][o] = event_ctx[fd][o]
        /\ m_epfd'[fd] = events[fd] \ {event}

C21_DelVsCancel ==
    [][\A fd \in Fds, event \in Events :
          /\ (\E rt \in {0, -1} : IoDelEvent(fd, event, rt))
                => m_tasks' = m_tasks
          /\ (IoDelEvent(fd, event, 0) /\ event \in events[fd])
                => /\ event \notin events'[fd]
                   /\ event_ctx'[fd][event] = EmptyCtx
                   /\ C21_OtherKept(fd, event)
          /\ (IoCancelEvent(fd, event, 0) /\ event \in events[fd])
                => /\ event \notin events'[fd]
                   /\ event_ctx[fd][event].scheduler
                   /\ m_tasks' = Append(m_tasks,
                                   [fiber |-> event_ctx[fd][event].fiber,
                                    cb |-> event_ctx[fd][event].cb,
                                    thread |-> AnyThread, id |-> nextTaskId])
                   /\ event_ctx'[fd][event] = EmptyCtx
                   /\ C21_OtherKept(fd, event)]_vars

\* the same for events whose slot holds a scheduler (documents what holds)
C21_WithScheduler ==
    [][\A fd \in Fds, event \in Events :
          /\ (\E rt \in {0, -1} : IoDelEvent(fd, event, rt))
                => m_tasks' = m_tasks
          /\ (IoDelEvent(fd, event, 0) /\ event \in events[fd])
                => /\ event \notin events'[fd]
                   /\ event_ctx'[fd][event] = EmptyCtx
                   /\ C21_OtherKept(fd, event)
          /\ (IoCancelEvent(fd, event, 0) /\ event \in events[fd]
                 /\ event_ctx[fd][event].scheduler)
                => /\ event \notin events'[fd]
                   /\ m_tasks' = Append(m_tasks,
                                   [fiber |-> event_ctx[fd][event].fiber,
                                    cb |-> event_ctx[fd][event].cb,
                                    thread |-> AnyThread, id |-> nextTaskId])
                   /\ event_ctx'[fd][event] = EmptyCtx
                   /\ C21_OtherKept(fd, event)]_vars

(***************************************************************************)
(* Removing every event of an fd: cancelAll.                               *)
(***************************************************************************)
C22_Task(fd, e, id) ==
    [fiber |-> event_ctx[fd][e].fiber, cb |-> event_ctx[fd][e].cb,
     thread |-> AnyThread, id |-> id]

C22_Pushed(fd) ==
    IF events[fd] = {READ} THEN <<C22_Task(fd, READ, nextTaskId)>>
    ELSE IF events[fd] = {WRITE} THEN <<C22_Task(fd, WRITE, nextTaskId)>>
    ELSE <<C22_Task(fd, READ, nextTaskId), C22_Task(fd, WRITE, nextTaskId + 1)>>

\* C22: a cancelAll call on an fd with a registered event (epoll_ctl
\* succeeding) pushes one task per registered event, carrying that slot's
\* fiber or callback, leaves the mask empty, both slots cleared and the fd
\* unwatched, and lowers the pending count by the number of bits that were
\* set; on an fd without a registered event it returns false and changes
\* nothing.
C22_CancelAll ==
    [][\A fd \in Fds :
          /\ (IoCancelAll(fd, 0) /\ events[fd] # {})
                => /\ \A e \in events[fd] : event_ctx[fd][e].scheduler
                   /\ m_tasks' = m_tasks \o C22_Pushed(fd)
                   /\ events'[fd] = {}
                   /\ event_ctx'[fd] = [e \in Events |-> EmptyCtx]
                   /\ m_epfd'[fd] = {}
                   /\ m_pendingEventCount' =
                         m_pendingEventCount - Cardinality(events[fd])
          /\ ((\E rt \in {0, -1} : IoCancelAll(fd, rt)) /\ events[fd] = {})
                => /\ lastIo' = <<"cancelAll", fd, 0, 0>>
                   /\ UNCHANGED <<events, event_ctx, m_epfd,
                                  m_pendingEventCount, m_tasks>>]_vars

\* the same for fds whose registered slots hold a scheduler (documents what
\* holds)
C22_WithScheduler ==
    [][\A fd \in Fds :
          /\ (IoCancelAll(fd, 0) /\ events[fd] # {}
                 /\ \A e \in events[fd] : event_ctx[fd][e].scheduler)
                => /\ m_tasks' = m_tasks \o C22_Pushed(fd)
                   /\ events'[fd] = {}
                   /\ event_ctx'[fd] = [e \in Events |-> EmptyCtx]
                   /\ m_epfd'[fd] = {}
                   /\ m_pendingEventCount' =
                         m_pendingEventCount - Cardinality(events[fd])
          /\ ((\E rt \in {0, -1} : IoCancelAll(fd, rt)) /\ events[fd] = {})
                => /\ lastIo' = <<"cancelAll", fd, 0, 0>>
                   /\ UNCHANGED <<events, event_ctx, m_epfd,
                                  m_pendingEventCount, m_tasks>>]_vars

(***************************************************************************)
(* Readiness and the timeout of a hooked call racing for its event.        *)
(***************************************************************************)
\* the tasks in the queue that resume the calling fiber
C23_Wakeups == {k \in 1..Len(m_tasks) : m_tasks[k].fiber = HookFiber}

\* readiness has won: the call is suspended, its event's bit was cleared by
\* idle()'s trigger, which queued the fiber, and no timeout was recorded
C23_ReadinessWon ==
    /\ hpc = "yielded"
    /\ HookEvent \notin events[HookFd]
    /\ C23_Wakeups # {}
    /\ tinfo_cancelled = 0

\* C23: when readiness has taken the event of a suspended hooked call, the
\* timeout callback of the call's timer that runs afterwards is a no-op: it
\* queues nothing, leaves the pending count alone and does not record a
\* timeout for the waiter (so the call does not fail with timed-out).
C23_LoserNoOp ==
    [][\A i \in TimerIds, rt \in {0, -1} :
          (HookLambda(i, rt) /\ i = htimer /\ C23_ReadinessWon)
             => /\ m_tasks' = m_tasks
                /\ m_pendingEventCount' = m_pendingEventCount
                /\ tinfo_cancelled' = tinfo_cancelled]_vars

\* what holds of the race: the fiber is queued at most once and the count
\* equals the number of registered events (documents what holds)
C23_OnceOnly ==
    Alive => /\ Cardinality(C23_Wakeups) <= 1
             /\ m_pendingEventCount = BitsUpTo(MaxFd)

(***************************************************************************)
(* The fd manager.                                                         *)
(***************************************************************************)
\* C24: FdManager::get makes a context only for an fd whose slot is empty
\* at the time it stores it (so that every get between the creation and
\* del(fd) returns the one handle, also for calls that overlap);
\* get(fd, false) returns the slot and makes nothing; after del(fd) the slot
\* is empty.
C24_OneContext ==
    [][/\ \A t \in IoCallers :
             FdmGetCreate(t) => m_datas[gpc[t][2]] = NoCtx
       /\ \A t \in IoCallers, fd \in Fds :
             FdmGetCheck(t, fd, FALSE)
                => /\ lastFdm' = <<"get", fd, 0, m_datas[fd]>>
                   /\ UNCHANGED <<m_datas, ctxCount, gpc>>
       /\ \A fd \in Fds : FdmDel(fd) => m_datas'[fd] = NoCtx]_vars

\* the same without the creation by overlapping calls (documents what
\* holds): a get that finds a context returns it and stores nothing
C24_Sequential ==
    [][/\ \A t \in IoCallers, fd \in Fds, auto_create \in BOOLEAN :
             (FdmGetCheck(t, fd, auto_create) /\ m_datas[fd] # NoCtx)
                => /\ lastFdm' = <<"get", fd, Flag(auto_create), m_datas[fd]>>
                   /\ UNCHANGED <<m_datas, ctxCount, gpc>>
       /\ \A t \in IoCallers, fd \in Fds :
             FdmGetCheck(t, fd, FALSE)
                => /\ lastFdm' = <<"get", fd, 0, m_datas[fd]>>
                   /\ UNCHANGED <<m_datas, ctxCount, gpc>>
       /\ \A fd \in Fds : FdmDel(fd) => m_datas'[fd] = NoCtx]_vars

(***************************************************************************)
(* The entry of a hooked read/write-family call.                           *)
(***************************************************************************)
\* the user has opted out of the runtime for a call on fd from thread t
C25_OptedOut(t, fd) ==
    \/ ~t_hook_enable[t]
    \/ m_datas[fd] = NoCtx
    \/ /\ ~fdctx[m_datas[fd]].isClosed
       /\ \/ ~fdctx[m_datas[fd]].isSocket
          \/ fdctx[m_datas[fd]].userNonblock

\* C25: a hooked read/write-family call made with the hook switch off, or
\* on an fd without a context, or on a non-socket, or with user_nonblock
\* set, is the raw call alone: no event is registered, no timer added, no
\* task queued and the call's timer_info path is not entered; with the
\* hook on and a context marked closed it fails with EBADF instead.
C25_Bypass ==
    [][/\ \A t \in IoCallers, fd \in Fds :
             (FdmDoIo(t, fd) /\ C25_OptedOut(t, fd))
                => /\ lastFdm' = <<"raw", fd, t, 0>>
                   /\ UNCHANGED <<events, event_ctx, m_epfd,
                                  m_pendingEventCount, m_timers, tmCount,
                                  m_tasks, hookVars, tblVars, lkVars>>
       /\ \A c \in [isSocket : BOOLEAN, sysNonblock : BOOLEAN,
                    userNonblock : BOOLEAN, isClosed : {TRUE}] :
             DoIoPath(TRUE, 1, c) = "ebadf"]_vars

\* a call on a socket that has a context, with the hook on and
\* user_nonblock set, has made the raw call and returned
C25_Witness ==
    /\ lastFdm[1] = "raw"
    /\ t_hook_enable[lastFdm[3]]
    /\ m_datas[lastFdm[2]] # NoCtx
    /\ fdctx[m_datas[lastFdm[2]]].isSocket
    /\ fdctx[m_datas[lastFdm[2]]].userNonblock

(***************************************************************************)
(* O_NONBLOCK as the user sees it.                                         *)
(***************************************************************************)
\* C27: on a socket that has a context, fcntl(F_GETFL) called after
\* fcntl(F_SETFL) or ioctl(FIONBIO) reports O_NONBLOCK as that call set it,
\* whatever the kernel's flag is, and the flags F_SETFL forwards to the
\* kernel carry O_NONBLOCK whenever the context's sys_nonblock is set.
C27_UserNonblock ==
    [][\A fd \in Fds :
          /\ (FdmGetfl(fd) /\ ~NotHooked(fd) /\ lastFdm[2] = fd
                 /\ lastFdm[1] \in {"setfl", "fionbio"})
                => lastFdm' = <<"getfl", fd, 0, lastFdm[3]>>
          /\ (FdmGetfl(fd) /\ ~NotHooked(fd))
                => lastFdm' = <<"getfl", fd, 0,
                                Flag(fdctx[m_datas[fd]].userNonblock)>>
          /\ \A nb \in BOOLEAN :
                (FdmSetfl(fd, nb) /\ ~NotHooked(fd)
                    /\ fdctx[m_datas[fd]].sysNonblock)
                   => /\ lastFdm' = <<"setfl", fd, Flag(nb), 1>>
                      /\ o_nonblock'[fd]]_vars

\* F_GETFL on a socket with a context has reported O_NONBLOCK, which only
\* the user's F_SETFL or FIONBIO stores in the context
C27_Witness ==
    /\ lastFdm[1] = "getfl"
    /\ ~NotHooked(lastFdm[2])
    /\ lastFdm[4] = 1
    /\ fdctx[m_datas[lastFdm[2]]].sysNonblock

(***************************************************************************)
(* Hooked close.                                                           *)
(***************************************************************************)
\* C28: a hooked close of an fd that has a context dispatches every waiter
\* registered on the fd (one task per registered event, the mask left
\* empty) and empties the fd's FdManager slot before close_f is called, so
\* that when close_f is called the cancelAll has been done and
\* get(fd, false) finds no context.
C28_CloseOrder ==
    [][/\ \A rt \in {0, -1} :
             (FdmCloseCancelAll(rt) /\ events[kpc.fd] # {})
                => /\ m_tasks' = m_tasks \o C22_Pushed(kpc.fd)
                   /\ events'[kpc.fd] = {}
       /\ (FdmCloseRaw /\ kpc.ctx # NoCtx)
             => /\ kpc.cancelAll = "done"
                /\ m_datas'[kpc.fd] = NoCtx]_vars

\* the same for a close made on a thread of the reactor, with epoll_ctl
\* succeeding, slots that hold a scheduler and no FdManager::get creating
\* the fd's context meanwhile (documents what holds)
C28_OnReactorThread ==
    [][/\ (FdmCloseCancelAll(0) /\ events[kpc.fd] # {}
             /\ t_scheduler[kpc.t]
             /\ \A e \in events[kpc.fd] : event_ctx[kpc.fd][e].scheduler)
             => /\ m_tasks' = m_tasks \o C22_Pushed(kpc.fd)
                /\ events'[kpc.fd] = {}
       /\ (FdmCloseRaw /\ kpc.ctx # NoCtx /\ kpc.cancelAll = "done")
             => \/ m_datas'[kpc.fd] = NoCtx
                \/ m_datas'[kpc.fd] > kpc.ctx]_vars

(***************************************************************************)
(* A hooked call with a timeout returns.                                   *)
(***************************************************************************)
\* the timeout of the call can still wake it: a condition timer is in the
\* set, or a collected OnTimer call has not run to its end
C26_TimeoutPending ==
    \/ \E i \in m_timers : tm_cb[i] = CondCb
    \/ \E i \in TimerIds : opc[i] \in {"queued", "locked"}

\* the call has registered its event and yields next, or is suspended
C26_Waiting == hpc \in {"registered", "yielded"}

\* C26: a hooked call that waits with a finite timeout is woken without the
\* fd becoming ready: a task resuming its fiber is queued, or its timeout
\* can still queue one.
C26_TimeoutWakes ==
    C26_Waiting => (C23_Wakeups # {} \/ C26_TimeoutPending)

\* a waiting call that nothing but readiness can wake has had its timeout
\* recorded already (documents how the call comes to hang)
C26_OnlyAfterTimeout ==
    (C26_Waiting /\ C23_Wakeups = {} /\ ~C26_TimeoutPending)
        => tinfo_cancelled = ETIMEDOUT

(***************************************************************************)
(* Hooked sleep: a one-shot timer that schedules the fiber, and a yield.   *)
(***************************************************************************)
\* the timers of the fibers that are asleep: added by a hooked sleep, their
\* callback not yet taken by listExpiredCb
C29_Sleeping == {i \in 1..tmCount : tm_cb[i][1] = "wake"}

\* C29: every fiber that went to sleep is resumed, also when several fibers
\* sleep until the same deadline: the timer of a sleeping fiber is in the
\* set until listExpiredCb takes its callback.
C29_SleeperWakes == \A i \in C29_Sleeping : i \in m_timers

\* a wake-up callback is collected or queued only when a sleep timer has
\* expired and left the set (documents the part that holds)
C29_OnlyAfterExpiry ==
    \A f \in UserFibers :
        (\/ \E d \in Dispatchers, j \in 1..MaxTimers :
                j <= Len(cbs[d]) /\ cbs[d][j] = WakeCb(f)
         \/ \E j \in 1..Len(m_tasks) : m_tasks[j].cb = WakeCb(f))
            => \E i \in 1..tmCount :
                  i \notin m_timers /\ tm_cb[i] = NoCb /\ m_next[i] <= now

(***************************************************************************)
(* listExpiredCb when the clock was set back by more than an hour.         *)
(***************************************************************************)
\* the call of listExpiredCb in this step detects a rollover
C30_RolloverList ==
    TmListExpired /\ DetectClockRollover(now, m_previouseTime)

\* C30: when listExpiredCb detects a clock rollover, the callback of every
\* timer in the set, one-shot or recurring, is collected once in that call,
\* whatever its deadline, and no other callback is.
C30_RolloverCollectsOnce ==
    [][C30_RolloverList =>
          \A i \in TimerIds :
              collected'[i] = collected[i] + (IF i \in m_timers THEN 1 ELSE 0)]_vars

\* with one-shot timers only, the rollover call collects every member once
\* and empties the set (documents the part that holds)
C30_OneShotRollover ==
    [][(C30_RolloverList /\ \A i \in m_timers : ~m_recurring[i]) =>
          /\ \A i \in TimerIds :
                collected'[i] = collected[i] + (IF i \in m_timers THEN 1 ELSE 0)
          /\ m_timers' = {}
          /\ \A i \in m_timers : tm_cb'[i] = NoCb]_vars

(***************************************************************************)
(* The front-insertion notification.                                       *)
(***************************************************************************)
\* timer i is handed to addTimer(shared_ptr<Timer>) in this step
C31_Inserting(i) ==
    \/ i = tmCount + 1 /\ lastOp'[1] = "add" /\ tmCount' = i
    \/ i \in 1..tmCount /\ TmResetInsert(i)

C32_Dead(i) == i \in 1..tmCount /\ tm_cb[i] = NoCb /\ rst[i] = NoReset

\* C32: refresh() and reset(ms, from_now) on a timer that was cancelled or
\* has fired as a one-shot return false and leave the set and the timer's
\* period and deadline unchanged, for every ms and from_now.
C32_DeadTimerOps ==
    [][\A i \in TimerIds, ms \in 0..MaxMs, from_now \in BOOLEAN :
          (C32_Dead(i) /\ (TmRefresh(i) \/ TmResetErase(i, ms, from_now))) =>
              /\ lastOp'[3] = FALSE
              /\ UNCHANGED <<m_timers, m_next, m_ms, tm_cb>>]_vars

\* on a dead timer both calls change nothing, and they return false except
\* reset(ms, false) with ms equal to the timer's period (documents the part
\* that holds)
C32_DeadTimerKept ==
    [][\A i \in TimerIds, ms \in 0..MaxMs, from_now \in BOOLEAN :
          (C32_Dead(i) /\ (TmRefresh(i) \/ TmResetErase(i, ms, from_now))) =>
              /\ UNCHANGED <<m_timers, m_next, m_ms, tm_cb, rst>>
              /\ lastOp'[3] => (lastOp'[1] = "reset"
                                  /\ TmResetErase(i, m_ms[i], FALSE))]_vars

(***************************************************************************)
(* triggerEvent's assertion.                                               *)
(***************************************************************************)
\* C34: every call of triggerEvent(event), from idle(), cancelEvent or
\* cancelAll, finds the event's bit set in the fd's mask: the assertion of
\* triggerEvent never fails, also for a readiness notification that
\* epoll_wait returned before a delEvent or cancelEvent removed one of the
\* two events.
C34_TriggerAssertHolds == aborted # "trigger_assert"

\* the callers that test the bit under the fd's mutex never trip the
\* assertion: it fails only in idle()'s readiness processing (documents the
\* part that holds)
C34_OnlyIdleTrips ==
    [][aborted' = "trigger_assert" => lastIo'[1] = "process"]_vars

(***************************************************************************)
(* triggerEvent hands the waiter to the scheduler.                         *)
(***************************************************************************)
\* the step is a cancelEvent, cancelAll or readiness processing on fd that
\* triggers events
C33_Triggers(fd) ==
    /\ lastIo'[1] \in {"cancel", "cancelAll", "process"}
    /\ lastIo'[2] = fd
    /\ events'[fd] # events[fd]

\* no fiber is switched to and no callback is entered in the step
C33_NothingRuns == runs' = runs /\ m_cb' = m_cb /\ UNCHANGED <<t_fiber, t_thread_fiber, t_scheduler_fiber, m_state, exec>>

\* every triggered event's waiter was appended to the queue and its slot
\* reset
C33_Enqueued(fd) ==
    LET gone == events[fd] \ events'[fd]
    IN  /\ Len(m_tasks') = Len(m_tasks) + Cardinality(gone)
        /\ SubSeq(m_tasks', 1, Len(m_tasks)) = m_tasks
        /\ \A e \in gone :
              /\ event_ctx'[fd][e] = EmptyCtx
              /\ \E k \in (Len(m_tasks) + 1)..Len(m_tasks') :
                    /\ m_tasks'[k].fiber = event_ctx[fd][e].fiber
                    /\ m_tasks'[k].cb = event_ctx[fd][e].cb

\* C33: triggerEvent never runs the waiter inline: it clears the event's
\* bit, appends the slot's callback or fiber to the task queue of the slot's
\* scheduler and resets the slot; nothing is run by the idle fiber or by the
\* caller of cancelEvent.
C33_NeverInline ==
    [][\A fd \in Fds :
          C33_Triggers(fd) =>
              /\ C33_NothingRuns
              /\ events'[fd] \subseteq events[fd]
              /\ aborted' = "none"
              /\ C33_Enqueued(fd)]_vars

\* nothing is run inline in any case, and the waiter is queued and the slot
\* reset whenever the call returns (documents the part that holds)
C33_WhenItReturns ==
    [][\A fd \in Fds :
          C33_Triggers(fd) =>
              /\ C33_NothingRuns
              /\ events'[fd] \subseteq events[fd]
              /\ aborted' = "none" => C33_Enqueued(fd)]_vars

(***************************************************************************)
(* listExpiredCb comes to an end.                                          *)
(***************************************************************************)
\* after the iterations the model makes (one more than there are timers) the
\* loop condition of listExpiredCb is still true for the clock reading and
\* the rollover flag of the call: a timer was taken a second time in the
\* same state, which repeats for ever
C36_LoopGoesOn ==
    /\ m_timers' # {}
    /\ \/ DetectClockRollover(now, m_previouseTime)
       \/ m_next'[SetBegin(m_next', m_timers')] <= now

\* C36: listExpiredCb terminates for every timer set and clock reading,
\* also with recurring timers of period 0 in the set and when a clock
\* rollover is detected while recurring timers are in the set.
C36_ListTerminates == [][TmListExpired => ~C36_LoopGoesOn]_vars

\* without a rollover and with every recurring member's period at least 1
\* the loop ends (documents the part that holds)
C36_TerminatesOtherwise ==
    [][(/\ TmListExpired
        /\ ~DetectClockRollover(now, m_previouseTime)
        /\ \A i \in m_timers : m_recurring[i] => m_ms[i] >= 1)
          => ~C36_LoopGoesOn]_vars

(***************************************************************************)
(* Operations on one timer and the other timers.                           *)
(***************************************************************************)
\* the step is a cancel, a refresh or a step of a reset on timer b
C37_OpOn(b) ==
    \/ TmCancel(b)
    \/ TmRefresh(b)
    \/ \E ms \in 0..MaxMs, from_now \in BOOLEAN : TmResetErase(b, ms, from_now)
    \/ TmResetWrite(b)
    \/ TmResetInsert(b)

\* every timer other than b keeps its membership, deadline and callback
C37_OthersKept(b) ==
    \A a \in TimerIds \ {b} :
        /\ (a \in m_timers) = (a \in m_timers')
        /\ m_next'[a] = m_next[a]
        /\ tm_cb'[a] = tm_cb[a]

\* C37: cancel(), refresh() and reset() on timer B never remove another
\* timer A from the set and never change A's deadline or callback, also when
\* A and B have equal deadlines.
C37_FrameOfTimerOps ==
    [][\A b \in TimerIds : C37_OpOn(b) => C37_OthersKept(b)]_vars

\* the same when no member of the set has B's deadline (documents the part
\* that holds)
C37_DistinctDeadlines ==
    [][\A b \in TimerIds :
          (C37_OpOn(b) /\ \A a \in m_timers \ {b} : m_next[a] # m_next[b])
              => C37_OthersKept(b)]_vars

(***************************************************************************)
(* What delEvent, cancelEvent and cancelAll return.                        *)
(***************************************************************************)
\* the step is a delEvent, cancelEvent or cancelAll on fd whose epoll_ctl
\* returns rt
C40_Op(fd, rt) ==
    \/ \E event \in Events : IoDelEvent(fd, event, rt)
    \/ \E event \in Events : IoCancelEvent(fd, event, rt)
    \/ IoCancelAll(fd, rt)

\* at least one bit was removed from fd's mask and none was added
C40_Removed(fd) == events'[fd] # events[fd] /\ events'[fd] \subseteq events[fd]

\* the mask, the slots and the pending-event count are as before
C40_Untouched ==
    UNCHANGED <<events, event_ctx, m_pendingEventCount>>

\* C40: delEvent, cancelEvent and cancelAll return true only if the event
\* bit(s) were removed from the fd's mask, and when the poller update fails
\* they return false with the mask, slots and count unchanged.
C40_TrueOnlyOnChange ==
    [][\A fd \in Fds, rt \in {0, -1} :
          C40_Op(fd, rt) =>
              /\ lastIo'[4] = 1 => C40_Removed(fd)
              /\ (rt # 0 /\ events[fd] # {})
                    => (lastIo'[4] = 0 /\ C40_Untouched)]_vars

\* what the functions do instead: true is returned when bits were removed or
\* when the poller update failed, and a failed or refused call changes
\* nothing (documents the part that holds)
C40_FailureChangesNothing ==
    [][\A fd \in Fds, rt \in {0, -1} :
          C40_Op(fd, rt) =>
              /\ lastIo'[4] = 1 => (C40_Removed(fd) \/ (rt # 0 /\ C40_Untouched))
              /\ lastIo'[4] = 0 => C40_Untouched
              /\ rt # 0 => C40_Untouched]_vars

(***************************************************************************)
(* Wake-ups of idle workers.                                               *)
(***************************************************************************)
\* dispatcher d is in its idle fiber at the poller wait and the queue holds a
\* task it may run
C35_Waiting(d) ==
    /\ pc[d] = "inIdle"
    /\ exec[d] = IdleFiber(d)
    /\ ipc[d] = "wait"
    /\ TakeIndex(m_tasks, d) # 0

\* C35: whenever the queue holds a task that some worker may run and such a
\* worker is blocked in the poller wait, a wake byte is pending in the wake
\* pipe, so that a schedule call racing with a worker that found the queue
\* empty still wakes that worker.
C35_NoLostWakeup ==
    \A d \in Dispatchers : (Alive /\ C35_Waiting(d)) => m_tickleFds

\* the race alone: the waiting worker is the only thread that could take the
\* task (every other dispatcher is not running or waits as well), no timer
\* is in the set and the stop has not begun
C35_Stranded(d) ==
    /\ Alive /\ C35_Waiting(d)
    /\ ~m_tickleFds
    /\ m_timers = {}
    /\ cpc = "started"
    /\ \A e \in Dispatchers \ {d} :
          pc[e] \in {"off", "exited"} \/ (pc[e] = "inIdle" /\ ipc[e] = "wait")

C35_NeverStranded == \A d \in Dispatchers : ~C35_Stranded(d)

(***************************************************************************)
(* The reactor's table of fd contexts.                                     *)
(***************************************************************************)
\* the FdContext object c is the table's entry for its fd
C38_IsEntry(v, c) == Len(v) > c[1] /\ v[c[1] + 1] = c[2]

\* C38: for every interleaving of addEvent calls on different fds, the table
\* size is non-decreasing and every fd context that holds a registered event
\* stays the entry for its fd.
C38_TableKept ==
    [][/\ Len(m_fdContexts') >= Len(m_fdContexts)
       /\ \A c \in fdCtxEvents : C38_IsEntry(m_fdContexts, c)
                                    => C38_IsEntry(m_fdContexts', c)]_vars

\* a resize by the only call that found the table too small keeps the size
\* and the entries (documents the part that holds)
C38_LoneResizeKeeps ==
    [][\A t \in IoCallers :
          (AddEventResize(t)
             /\ Len(m_fdContexts) <= aepc[t].fd)
          => /\ Len(m_fdContexts') >= Len(m_fdContexts)
             /\ \A c \in fdCtxEvents : C38_IsEntry(m_fdContexts, c)
                                          => C38_IsEntry(m_fdContexts', c)]_vars

(***************************************************************************)
(* Deadlock freedom of the runtime's locks.                                *)
(***************************************************************************)
\* thread t is inside a call and cannot take its next step
C39_Blocked(t) ==
    lkSteps[t] # <<>> /\ ~LkCanTake(t, Head(lkSteps[t]))

\* the threads a blocked thread waits for: the holders of the lock it asks
\* for, the thread whose signal or end it waits for
C39_WaitsFor(t) ==
    LET step == Head(lkSteps[t])
    IN  IF step[1] \in {"lock", "lock_shared"}
        THEN {h[1] : h \in lkHeld[step[2]]}
        ELSE {step[2]}

\* a set of threads each of which waits for a member of the set
C39_Deadlock ==
    \E S \in (SUBSET Dispatchers) \ {{}} :
        \A t \in S : C39_Blocked(t) /\ C39_WaitsFor(t) \cap S # {}

\* C39: no interleaving of schedule, the dispatch loop, the idle loop,
\* addEvent / delEvent / cancelEvent / cancelAll, the timer operations and
\* start / stop reaches a state in which threads wait for ever on each other
\* for the scheduler mutex, a fiber mutex, the table lock, an fd mutex or
\* the timer lock.
C39_NoDeadlock == ~C39_Deadlock

\* two workers contend: one waits for the queue mutex while the other holds
\* it inside triggerEvent, under an fd mutex, in a task run under a fiber
\* mutex; a third thread waits for that fd mutex
C39_Witness ==
    \E t, u, v \in Dispatchers :
        /\ t # u /\ u # v /\ t # v
        /\ {<<"sched", 0>>, <<"fd", 0>>, <<"fiber", 0>>}
               \subseteq {l \in DOMAIN lkHeld : <<t, "x">> \in lkHeld[l]}
        /\ C39_Blocked(u) /\ Head(lkSteps[u]) = <<"lock", <<"sched", 0>>>>
        /\ C39_Blocked(v) /\ Head(lkSteps[v]) = <<"lock", <<"fd", 0>>>>

====
